---- MODULE Spec2Model ----
(***************************************************************************)
(* Model of the ThreatDetectionEngine of backend/threat_detection.py.      *)
(*                                                                         *)
(* Time is the reading of time.time(), kept in ticks of 1/TicksPerSec      *)
(* second so that int(...) truncation to whole seconds is visible.  Every  *)
(* engine operation that takes the engine lock is one action; the clock    *)
(* advances between operations (Tick) and does not go backwards, but two   *)
(* operations may read the same clock value.                               *)
(***************************************************************************)
EXTENDS Integers, Sequences, FiniteSets, TLC

\* ---------------------------------------------------------------- bounds
TicksPerSec   == 2      \* clock resolution of the model (ticks per second)
NumInstants   == 5      \* clock readings the model draws from (see InstantList)
MaxTicks      == 1      \* clock advances in a behaviour
MaxCalls      == 2      \* recording calls (login failure, burst check, inspection, honeypot) in a behaviour
LoginSlack    == 2      \* failures missing to the login limit in a pre-filled window
BurstSlack    == 2      \* requests missing to the burst limit in a pre-filled window
PriorOffenses == 3      \* offense_count of the repeat offender in the initial state

\* ------------------------------------------------------- program constants
MAX_FAILED_LOGINS   == 5
FAILED_LOGIN_WINDOW == 300
DDOS_BURST_LIMIT    == 100
DDOS_WINDOW         == 10
BAN_DURATIONS       == <<3600, 21600, 86400, 604800>>
TIMESTAMPS_MAXLEN   == 200
BURST_MAXLEN        == 2000
HONEYPOT_MAXLEN     == 2000
PAYLOAD_MAXLEN      == 500
CLEANUP_INTERVAL    == 300

None == -1              \* Python's None for an Optional[float] / Optional[int]
NoAttack == "None"      \* Python's None for an Optional[str]

IPs   == {"10.0.0.5"}
Paths == {<<"/login">>}
UserAgents == {"curl"}

Sec(s) == s * TicksPerSec          \* seconds -> clock ticks
ToInt(d) == d \div TicksPerSec     \* int(x) of a non-negative duration x, in seconds
Min(a, b) == IF a <= b THEN a ELSE b

VARIABLES
    now,            \* the value time.time() returns, in ticks
    failed_logins,  \* _failed_logins: ip -> FailedLoginRecord (a dict: partial on IPs)
    burst_tracker,  \* _burst_tracker: ip -> BurstRecord.timestamps, kept as runs
    honeypot_hits,  \* _honeypot_hits deque
    payload_hits,   \* _payload_hits deque
    ban_file,       \* content of BAN_STATE_FILE: ip -> [ban_until, offense_count]
    cleanup_pc,     \* position of the cleanup thread: "sleep" or "save"
    cleanup_wake,   \* the time at which the cleanup thread's time.sleep(300) ends
    ret,            \* what the last completed call returned
    request,        \* the request inspect_payload was last called with (SpecPayload)
    bans_total,     \* history: number of bans issued so far, per IP
    prev_until,     \* history: the value ban_until was last set to, per IP
    nbans,          \* history: number of bans issued in this behaviour
    ncalls,         \* history: number of recording calls made in this behaviour
    nticks,         \* history: number of clock advances in this behaviour
    cleanup_bans,   \* the dict the cleanup thread's _save_bans has built and not yet written
    kill_switch_active,     \* _kill_switch_active
    score,          \* what the last calculate_threat_score returned
    requests,       \* SlidingWindowRateLimiter._requests: <<ip, category>> -> timestamps
    blocked_count,  \* SlidingWindowRateLimiter._blocked_count: ip -> offenses
    total_blocked,  \* SlidingWindowRateLimiter._total_blocked
    attack_mode,    \* SlidingWindowRateLimiter._attack_mode
    circuit_open,   \* SlidingWindowRateLimiter._circuit_open
    info,           \* what the last SlidingWindowRateLimiter.check returned
    response,       \* what security_middleware did with the last request
    cpu_history,    \* AnomalyDetector.cpu_history
    memory_history, \* AnomalyDetector.memory_history
    disk_history,   \* AnomalyDetector.disk_history
    anomaly_streaks,            \* AnomalyDetector.anomaly_streaks
    anomalies,                  \* AnomalyDetector.anomalies
    total_checks,               \* AnomalyDetector.total_checks
    total_anomalies_detected,   \* AnomalyDetector.total_anomalies_detected
    analysis,       \* what the last AnomalyDetector.analyze returned
    consecutive_fails,  \* SelfHealingEngine.consecutive_fails
    failure_count,      \* SelfHealingEngine.failure_count
    healed_count,       \* SelfHealingEngine.healed_count
    heal_stack,     \* the calls of SelfHealingEngine.heal in progress, outermost first
    heal_trace,     \* history: what the heal calls did since the outermost one began
    loop_pc,        \* position of each background loop in its iteration
    loop_runs,      \* history: iterations each background loop has begun
    engine_lock,    \* ThreatDetectionEngine._lock: the thread that holds it, or "free"
    limiter_lock,   \* SlidingWindowRateLimiter._lock: the thread that holds it, or "free"
    thread_pc,      \* position of each thread in the call it is making
    actor,          \* history: the thread that took the last step
    analyze_pc,     \* position of the analyze call in progress: idle, or storing its k-th event
    found_anomalies,    \* the local anomalies_found of the analyze call in progress
    history,        \* what the last get_anomaly_history returned
    health,         \* the local health["ok"] of the iteration of run() in progress
    last_probe,     \* history: what the last check_api_health found
    report,         \* content of /tmp/brahmastra_health.json
    calls,          \* the locals of the check call each caller has in progress
    admitted        \* history: the times of the requests check admitted, per key

\* the variables of the threat engine that the login, burst, payload, honeypot and
\* ban operations read and write
banVars == <<now, failed_logins, burst_tracker, honeypot_hits, payload_hits,
             ban_file, cleanup_pc, cleanup_wake, ret, request, bans_total, prev_until,
             nbans, ncalls, nticks>>
scoreVars    == <<kill_switch_active, score>>
limiterVars  == <<requests, blocked_count, total_blocked, attack_mode, circuit_open, info>>
detectorVars == <<cpu_history, memory_history, disk_history, anomaly_streaks,
                  anomalies, total_checks, total_anomalies_detected, analysis>>

healerVars   == <<consecutive_fails, failure_count, healed_count, heal_stack, heal_trace>>
loopVars     == <<loop_pc, loop_runs>>
lockVars     == <<engine_lock, limiter_lock, thread_pc, actor>>
readerVars   == <<analyze_pc, found_anomalies, history>>
reportVars   == <<health, last_probe, report>>
raceVars     == <<calls, admitted>>
otherVars    == <<healerVars, loopVars, lockVars, readerVars, reportVars, raceVars>>

\* what is not the threat engine's
notEngine == <<limiterVars, response, detectorVars, otherVars>>
vars == <<banVars, cleanup_bans, scoreVars, notEngine>>

\* --------------------------------------------------------------- helpers
EmptyMap == [x \in {} |-> 0]
Put(f, k, v) == [x \in (DOMAIN f) \cup {k} |-> IF x = k THEN v ELSE f[x]]
Drop(f, ks) == [x \in (DOMAIN f) \ ks |-> f[x]]

\* collections.deque(maxlen=n).append(x): a full deque drops its oldest element
DequeAppend(dq, x, maxlen) ==
    IF Len(dq) >= maxlen THEN Append(Tail(dq), x) ELSE Append(dq, x)

\* while ts and now - ts[0] > window: ts.popleft()
\* the loop stops at the first timestamp that is not older than the window
PruneLeft(ts, t, window) ==
    LET stop  == {i \in DOMAIN ts : ~(t - ts[i] > window)}
        first == IF stop = {} THEN Len(ts) + 1
                 ELSE CHOOSE i \in stop : \A j \in stop : i <= j
    IN  SubSeq(ts, first, Len(ts))

\* A BurstRecord's deque holds clock readings in the order they were read, so
\* equal readings are neighbours: the deque is kept as its runs <<reading, count>>.
RECURSIVE RunsLen(_)
RunsLen(rs) == IF rs = <<>> THEN 0 ELSE Head(rs)[2] + RunsLen(Tail(rs))      \* len(deque)

\* while ts and now - ts[0] > window: ts.popleft()
PruneRuns(rs, t, window) ==
    LET stop  == {i \in DOMAIN rs : ~(t - rs[i][1] > window)}
        first == IF stop = {} THEN Len(rs) + 1
                 ELSE CHOOSE i \in stop : \A j \in stop : i <= j
    IN  SubSeq(rs, first, Len(rs))

\* deque(maxlen=n).append(t) on the runs
RunsAppend(rs, t, maxlen) ==
    LET kept == IF RunsLen(rs) < maxlen THEN rs
                ELSE IF Head(rs)[2] > 1 THEN [rs EXCEPT ![1][2] = @ - 1]
                ELSE Tail(rs)
    IN  IF kept # <<>> /\ kept[Len(kept)][1] = t
        THEN [kept EXCEPT ![Len(kept)][2] = @ + 1]
        ELSE Append(kept, <<t, 1>>)

\* FailedLoginRecord() as the defaultdict creates it
NewRecord == [timestamps |-> <<>>, ban_until |-> None, offense_count |-> 0]

\* self._failed_logins[ip] on a defaultdict
Rec(fl, ip) == IF ip \in DOMAIN fl THEN fl[ip] ELSE NewRecord

\* the results calls return
Result(ok, secs, attack) == [ok |-> ok, secs |-> secs, attack |-> attack]
NoResult == Result(FALSE, None, NoAttack)

\* the arguments of an inspect_payload call
Request(ip, path, query, body) == [ip |-> ip, path |-> path, query |-> query, body |-> body]
NoRequest == Request("", <<>>, <<>>, <<>>)

\* the dict _save_bans builds: the bans still active at time t
Snapshot(fl, t) ==
    LET active == {ip \in DOMAIN fl :
                      fl[ip].ban_until # None /\ fl[ip].ban_until > t}
    IN  [ip \in active |-> [ban_until |-> fl[ip].ban_until,
                            offense_count |-> fl[ip].offense_count]]

\* _save_bans: a failed write is logged and leaves the file as it was
save_bans(fl, t, io_ok) == IF io_ok THEN Snapshot(fl, t) ELSE ban_file

\* what a caller gets when the call does not return: an exception
Raised == Result(FALSE, None, "Exception")

SaveRaisesOnFailure(io_ok) == ~io_ok

\* whether _save_bans raises: its whole body is inside try / except Exception
SaveRaises(io_ok) == FALSE

\* the result of an operation that ran _save_bans on its way
AfterSave(io_ok, result) == IF SaveRaises(io_ok) THEN Raised ELSE result

\* _load_bans on a readable file: a record for every entry whose ban is still active
Loaded(file, t) ==
    [ip \in {x \in DOMAIN file : file[x].ban_until > t} |->
        [timestamps |-> <<>>, ban_until |-> file[ip].ban_until,
         offense_count |-> file[ip].offense_count]]

BanDurationAfterIncrement(offense_count) ==
    BAN_DURATIONS[Min(offense_count + 1, Len(BAN_DURATIONS) - 1) + 1]

BanDurationFromLongest(offense_count) ==
    BAN_DURATIONS[Len(BAN_DURATIONS) - Min(offense_count, Len(BAN_DURATIONS) - 1)]

\* duration selected by _ban_ip for a record with the given offense_count
BanDuration(offense_count) ==
    BAN_DURATIONS[Min(offense_count, Len(BAN_DURATIONS) - 1) + 1]

\* _ban_ip without its save: the map after banning ip at time t
ban_ip(fl, ip, t) ==
    LET rec == Rec(fl, ip)
    IN  Put(fl, ip, [rec EXCEPT !.ban_until = t + Sec(BanDuration(rec.offense_count)),
                                !.offense_count = rec.offense_count + 1])

\* history kept for the properties: the ban just issued on ip
NoteBan(fl, ip) ==
    /\ bans_total' = [bans_total EXCEPT ![ip] = @ + 1]
    /\ prev_until' = [prev_until EXCEPT ![ip] = fl[ip].ban_until]
    /\ nbans' = nbans + 1
NoBan == UNCHANGED <<bans_total, prev_until, nbans>>

\* ------------------------------------------------------------------ Init
\* a burst window holding that many requests made at time 0
BurstPrefill == << <<0, DDOS_BURST_LIMIT * DDOS_WINDOW - BurstSlack>> >>

\* a record holding that many failed logins made at time 0
LoginPrefill ==
    [timestamps |-> [i \in 1 .. (MAX_FAILED_LOGINS - LoginSlack) |-> 0],
     ban_until |-> None, offense_count |-> 0]

\* a record whose bans have all expired and were lazily cleared by is_ip_banned
RepeatOffender(k) == [timestamps |-> <<>>, ban_until |-> None, offense_count |-> k]

\* the "value" of each entry of the factors dict calculate_threat_score returns
\* (None: the dict has no such entry)
Factors(cpu, memory, conns, banned, recent_honey, recent_payload) ==
    [cpu |-> cpu, memory |-> memory, network_connections |-> conns,
     banned_ips |-> banned, honeypot_hits_1h |-> recent_honey,
     payload_attacks_1h |-> recent_payload]
NoFactors == Factors(None, None, None, None, None, None)

\* the dict calculate_threat_score returns
Score(threat_score, level, flag, factors) ==
    [threat_score |-> threat_score, level |-> level, kill_switch_active |-> flag,
     factors |-> factors]
NoScore == Score(None, "", FALSE, NoFactors)

\* the dict SlidingWindowRateLimiter.check returns (None, "": key absent)
Info(allowed, category, limit, remaining, retry_after, window, reason) ==
    [allowed |-> allowed, category |-> category, limit |-> limit,
     remaining |-> remaining, retry_after |-> retry_after, window |-> window,
     reason |-> reason]
NoInfo == Info(FALSE, "", None, None, None, None, "")

\* what security_middleware did: the checks it ran, in order, and the status code
\* of its response (200: the request was passed on to call_next)
Response(ran, status_code) == [ran |-> ran, status_code |-> status_code]
NoResponse == Response(<<>>, None)

\* the dict AnomalyDetector.analyze returns
Analysis(status, samples, found) == [status |-> status, samples |-> samples, anomalies |-> found]
NoAnalysis == Analysis("", 0, <<>>)

\* SlidingWindowRateLimiter.__init__
InitLimiter ==
    /\ requests = EmptyMap
    /\ blocked_count = EmptyMap
    /\ total_blocked = 0
    /\ attack_mode = FALSE
    /\ circuit_open = FALSE
    /\ info = NoInfo

\* the background loops and the threads that call the engines
Loops   == {"supervisor", "limiter", "cleanup"}
Threads == {"request", "background"}

\* SelfHealingEngine.__init__
InitHealer ==
    /\ consecutive_fails = 0
    /\ failure_count = 0
    /\ healed_count = 0
    /\ heal_stack = <<>>
    /\ heal_trace = <<>>

\* every background loop starts in its first time.sleep
InitLoops ==
    /\ loop_pc = [l \in Loops |-> "sleep"]
    /\ loop_runs = [l \in Loops |-> 0]

\* threading.Lock(): both locks are free and no thread is in a call
InitLocks ==
    /\ engine_lock = "free"
    /\ limiter_lock = "free"
    /\ thread_pc = [t \in Threads |-> "idle"]
    /\ actor = "none"

\* no analyze call is in progress and get_anomaly_history has not been called
InitReader ==
    /\ analyze_pc = [at |-> "idle", k |-> 0]
    /\ found_anomalies = <<>>
    /\ history = <<>>

\* the dict write_health_report dumps (of its stats: the counters the model has)
Report(api_healthy, failures, heals, fails) ==
    [written |-> TRUE, api_healthy |-> api_healthy, failures |-> failures,
     heals |-> heals, consecutive_fails |-> fails]
NoReport ==
    [written |-> FALSE, api_healthy |-> FALSE, failures |-> None,
     heals |-> None, consecutive_fails |-> None]

\* run() has not probed the API and has written no report
InitReport ==
    /\ health = FALSE
    /\ last_probe = FALSE
    /\ report = NoReport

\* the initial state of what the specification at hand leaves alone
\* the threads that call SlidingWindowRateLimiter.check
Callers == {"first", "second"}

\* the locals of a check call between its reading of the clock and its `with
\* self._lock:` block
Call(pc, ip, category, t, max_req) ==
    [pc |-> pc, ip |-> ip, category |-> category, now |-> t, max_req |-> max_req]
NoCheck == Call("idle", "", "", None, None)

\* no check call is in progress and none has admitted a request
InitRace ==
    /\ calls = [c \in Callers |-> NoCheck]
    /\ admitted = EmptyMap

InitRest == InitReader /\ InitReport /\ InitRace

InitOther == InitHealer /\ InitLoops /\ InitLocks /\ InitRest

\* AnomalyDetector.__init__
InitDetector ==
    /\ cpu_history = <<>>
    /\ memory_history = <<>>
    /\ disk_history = <<>>
    /\ anomaly_streaks = [cpu |-> 0, memory |-> 0, disk |-> 0]
    /\ anomalies = <<>>
    /\ total_checks = 0
    /\ total_anomalies_detected = 0
    /\ analysis = NoAnalysis

\* the addresses calls are made from in the threat-score scenarios
AttackerList ==
    <<"203.0.113.1", "203.0.113.2", "203.0.113.3", "203.0.113.4", "203.0.113.5",
      "203.0.113.6", "203.0.113.7", "203.0.113.8", "203.0.113.9", "203.0.113.10",
      "203.0.113.11", "203.0.113.12">>
Attackers == {AttackerList[i] : i \in DOMAIN AttackerList}
Clients == IPs \cup Attackers

\* The engine at the start of the observation: freshly constructed; or with one
\* IP just short of the burst limit; or just short of the failed-login limit; or
\* with one IP that was banned before.
InitBans ==
    /\ now = 0
    /\ \E scenario \in {"fresh", "burst", "logins", "repeat"}, who \in IPs,
          k \in (PriorOffenses - 1) .. PriorOffenses :
          /\ scenario = "fresh" => who = CHOOSE ip \in IPs : TRUE
          /\ scenario # "repeat" => k = PriorOffenses
          /\ failed_logins = IF scenario = "repeat"
                             THEN [ip \in {who} |-> RepeatOffender(k)]
                             ELSE IF scenario = "logins"
                             THEN [ip \in {who} |-> LoginPrefill] ELSE EmptyMap
          /\ burst_tracker = IF scenario = "burst"
                             THEN [ip \in {who} |-> BurstPrefill] ELSE EmptyMap
          /\ bans_total = [ip \in Clients |->
                              IF scenario = "repeat" /\ ip = who THEN k ELSE 0]
    /\ honeypot_hits = <<>>
    /\ payload_hits = <<>>
    /\ ban_file = EmptyMap
    /\ cleanup_pc = "sleep"
    /\ cleanup_wake = Sec(CLEANUP_INTERVAL)
    /\ ret = NoResult
    /\ request = NoRequest
    /\ prev_until = [ip \in Clients |-> None]
    /\ nbans = 0
    /\ ncalls = 0
    /\ nticks = 0

\* the state after the module-level singletons are constructed
Init ==
    /\ InitBans
    /\ cleanup_bans = EmptyMap
    /\ kill_switch_active = FALSE
    /\ score = NoScore
    /\ InitLimiter
    /\ response = NoResponse
    /\ InitDetector
    /\ InitOther

\* --------------------------------------------------------------- actions
\* The clock readings of the model: the start, one tick later, and the instants
\* at which the burst window, the failed-login window and the ladder's durations
\* end, each followed by the reading one tick after it.
InstantList ==
    <<0, 1, Sec(DDOS_WINDOW), Sec(FAILED_LOGIN_WINDOW), Sec(BAN_DURATIONS[1]),
      Sec(BAN_DURATIONS[1]) + 1, Sec(FAILED_LOGIN_WINDOW) + 1, Sec(DDOS_WINDOW) + 1,
      Sec(BAN_DURATIONS[2]), Sec(BAN_DURATIONS[2]) + 1>>
Instants == {InstantList[i] : i \in 1 .. Min(NumInstants, Len(InstantList))}

\* time passes: the next call reads a later clock value, one of the given ones
TickTo(instants) ==
    /\ \E t \in instants : t > now /\ now' = t
    /\ nticks' = nticks + 1
    /\ UNCHANGED <<failed_logins, burst_tracker, honeypot_hits, payload_hits,
                   ban_file, cleanup_pc, cleanup_wake, ret, request, bans_total,
                   prev_until, nbans>>

Tick == TickTo(Instants)

ReachedLimitStrict(n) == n > MAX_FAILED_LOGINS

\* if len(rec.timestamps) >= MAX_FAILED_LOGINS
ReachedLimit(n) == n >= MAX_FAILED_LOGINS

record_failed_login(ip, io_ok) ==
    LET rec    == Rec(failed_logins, ip)
        ts     == DequeAppend(PruneLeft(rec.timestamps, now, Sec(FAILED_LOGIN_WINDOW)),
                              now, TIMESTAMPS_MAXLEN)
        fl1    == Put(failed_logins, ip, [rec EXCEPT !.timestamps = ts])
        banned == ReachedLimit(Len(ts))
    IN  /\ IF banned
           THEN /\ failed_logins' = ban_ip(fl1, ip, now)
                /\ ban_file' = save_bans(failed_logins', now, io_ok)
                /\ NoteBan(failed_logins', ip)
           ELSE /\ failed_logins' = fl1
                /\ UNCHANGED ban_file
                /\ NoBan
        /\ ret' = IF banned THEN AfterSave(io_ok, Result(TRUE, None, NoAttack))
                  ELSE Result(FALSE, None, NoAttack)
        /\ UNCHANGED <<now, burst_tracker, honeypot_hits, payload_hits,
                       cleanup_pc, cleanup_wake, request, nticks>>

record_successful_login_lifts_ban(ip) ==
    /\ failed_logins' =
          IF ip \in DOMAIN failed_logins
          THEN [failed_logins EXCEPT ![ip].timestamps = <<>>, ![ip].ban_until = None]
          ELSE failed_logins
    /\ ret' = NoResult
    /\ UNCHANGED <<now, burst_tracker, honeypot_hits, payload_hits, ban_file,
                   cleanup_pc, cleanup_wake, request, bans_total, prev_until, nbans, nticks>>

record_successful_login(ip) ==
    /\ failed_logins' =
          IF ip \in DOMAIN failed_logins
          THEN [failed_logins EXCEPT ![ip].timestamps = <<>>]
          ELSE failed_logins
    /\ ret' = NoResult
    /\ UNCHANGED <<now, burst_tracker, honeypot_hits, payload_hits, ban_file,
                   cleanup_pc, cleanup_wake, request, bans_total, prev_until, nbans, nticks>>

IsBannedResultInclusive(ip) ==
    IF ip \notin DOMAIN failed_logins THEN Result(FALSE, None, NoAttack)
    ELSE IF failed_logins[ip].ban_until = None THEN Result(FALSE, None, NoAttack)
    ELSE IF now <= failed_logins[ip].ban_until
         THEN Result(TRUE, ToInt(failed_logins[ip].ban_until - now), NoAttack)
         ELSE Result(FALSE, None, NoAttack)

\* what is_ip_banned(ip) returns in the current state
IsBannedResult(ip) ==
    IF ip \notin DOMAIN failed_logins THEN Result(FALSE, None, NoAttack)
    ELSE IF failed_logins[ip].ban_until = None THEN Result(FALSE, None, NoAttack)
    ELSE IF now < failed_logins[ip].ban_until
         THEN Result(TRUE, ToInt(failed_logins[ip].ban_until - now), NoAttack)
         ELSE Result(FALSE, None, NoAttack)

is_ip_banned_clearing_expired(ip) ==
    /\ ret' = IsBannedResult(ip)
    /\ failed_logins' =
          [x \in DOMAIN failed_logins |->
              IF failed_logins[x].ban_until # None /\ ~(now < failed_logins[x].ban_until)
              THEN [failed_logins[x] EXCEPT !.ban_until = None, !.timestamps = <<>>]
              ELSE failed_logins[x]]
    /\ UNCHANGED <<now, burst_tracker, honeypot_hits, payload_hits, ban_file,
                   cleanup_pc, cleanup_wake, request, bans_total, prev_until, nbans, nticks>>

\* ThreatDetectionEngine.is_ip_banned: the answer, and the lazy clearing of the
\* caller's record when its ban has run out
is_ip_banned(ip) ==
    /\ ret' = IsBannedResult(ip)
    /\ failed_logins' =
          IF /\ ip \in DOMAIN failed_logins
             /\ failed_logins[ip].ban_until # None
             /\ ~(now < failed_logins[ip].ban_until)
          THEN [failed_logins EXCEPT ![ip].ban_until = None,
                                     ![ip].timestamps = <<>>]
          ELSE failed_logins
    /\ UNCHANGED <<now, burst_tracker, honeypot_hits, payload_hits, ban_file,
                   cleanup_pc, cleanup_wake, request, bans_total, prev_until, nbans, nticks>>

unblock_ip_defaultdict(ip, io_ok) ==
    /\ failed_logins' = Put(failed_logins, ip,
                            [Rec(failed_logins, ip) EXCEPT !.ban_until = None,
                                                           !.timestamps = <<>>])
    /\ ban_file' = save_bans(failed_logins', now, io_ok)
    /\ ret' = AfterSave(io_ok, Result(TRUE, None, NoAttack))
    /\ UNCHANGED <<now, burst_tracker, honeypot_hits, payload_hits,
                   cleanup_pc, cleanup_wake, request, bans_total, prev_until, nbans, nticks>>

unblock_ip(ip, io_ok) ==
    /\ IF ip \in DOMAIN failed_logins
       THEN /\ failed_logins' = [failed_logins EXCEPT ![ip].ban_until = None,
                                                      ![ip].timestamps = <<>>]
            /\ ban_file' = save_bans(failed_logins', now, io_ok)
            /\ ret' = AfterSave(io_ok, Result(TRUE, None, NoAttack))
       ELSE /\ UNCHANGED <<failed_logins, ban_file>>
            /\ ret' = Result(FALSE, None, NoAttack)
    /\ UNCHANGED <<now, burst_tracker, honeypot_hits, payload_hits,
                   cleanup_pc, cleanup_wake, request, bans_total, prev_until, nbans, nticks>>

\* ------------------------------------------------- DDoS / burst detection
IsBurstStrict(n) == n > DDOS_BURST_LIMIT * DDOS_WINDOW

\* rps = len(rec.timestamps) / DDOS_WINDOW;  if rps >= DDOS_BURST_LIMIT
IsBurst(n) == n >= DDOS_BURST_LIMIT * DDOS_WINDOW

check_ddos(ip, io_ok) ==
    LET old  == IF ip \in DOMAIN burst_tracker THEN burst_tracker[ip] ELSE <<>>
        ts   == RunsAppend(PruneRuns(old, now, Sec(DDOS_WINDOW)), now, BURST_MAXLEN)
        ddos == IsBurst(RunsLen(ts))
    IN  /\ burst_tracker' = Put(burst_tracker, ip, ts)
        /\ IF ddos
           THEN /\ failed_logins' = ban_ip(failed_logins, ip, now)
                /\ ban_file' = save_bans(failed_logins', now, io_ok)
                /\ NoteBan(failed_logins', ip)
           ELSE /\ UNCHANGED <<failed_logins, ban_file>>
                /\ NoBan
        /\ ret' = IF ddos THEN AfterSave(io_ok, Result(TRUE, None, NoAttack))
                  ELSE Result(FALSE, None, NoAttack)
        /\ UNCHANGED <<now, honeypot_hits, payload_hits, cleanup_pc,
                       cleanup_wake, request, nticks>>

\* ------------------------------------------------------ payload inspection
\* A text is a sequence of lexemes; the lexemes are the literal pieces the four
\* compiled patterns are built from, plus blanks, a newline and harmless words.
Blank    == {" ", "\n"}                 \* what \s matches
WordEnd  == {"union", "UNION", "select", "from", "drop", "table", "insert", "into",
             "delete", "xp_", "0x", "1f", "<script", "<SCRIPT", "<iframe", "<svg",
             "onload", "alert", "document.cookie", "nc", "wget", "curl", "http",
             "%2e%2e%2f", "%252e%252e", "x", "/login"}      \* last char is \w
WordStart == {"union", "UNION", "select", "from", "drop", "table", "insert", "into",
              "delete", "xp_", "0x", "1f", "onload", "onload=", "onerror=",
              "javascript:", "alert", "document.cookie", "nc", "wget", "curl",
              "http", "x"}                                  \* first char is \w
HexStart == {"1f", "0x", "drop", "delete", "from", "alert", "curl", "document.cookie"}

\* re.IGNORECASE
Lower(l) == CASE l = "UNION"   -> "union"
              [] l = "<SCRIPT" -> "<script"
              [] OTHER         -> l

Has(text, l) == \E i \in DOMAIN text : Lower(text[i]) = l

\* \bw\b at position i
WordAt(text, i, w) ==
    /\ Lower(text[i]) = w
    /\ i > 1 => text[i-1] \notin WordEnd
    /\ i < Len(text) => text[i+1] \notin WordStart

\* a.*b : b starts after a ends, with no newline in between
Then(text, i, j) == i < j /\ \A k \in (i+1) .. (j-1) : text[k] # "\n"

WordsInOrder(text, a, b) ==
    \E i, j \in DOMAIN text : WordAt(text, i, a) /\ WordAt(text, j, b) /\ Then(text, i, j)

\* a\s+b : b follows a after at least one blank
BlankSeparated(text, a, bs) ==
    \E i, j \in DOMAIN text :
        /\ Lower(text[i]) = a /\ text[j] \in bs /\ i + 1 < j
        /\ \A k \in (i+1) .. (j-1) : text[k] \in Blank

\* a\s*b : b follows a after any number of blanks
BlankOptional(text, a, b) ==
    \E i, j \in DOMAIN text :
        /\ Lower(text[i]) = a /\ text[j] = b /\ i < j
        /\ \A k \in (i+1) .. (j-1) : text[k] \in Blank

SQLI_PATTERNS(text) ==
    \/ WordsInOrder(text, "union", "select")
    \/ WordsInOrder(text, "select", "from")
    \/ WordsInOrder(text, "drop", "table")
    \/ WordsInOrder(text, "insert", "into")
    \/ WordsInOrder(text, "delete", "from")
    \/ Has(text, "--")
    \/ \E i \in DOMAIN text : i < Len(text) /\ text[i] = "-" /\ text[i+1] = "-"
    \/ \E i, j \in DOMAIN text : text[i] = "/*" /\ text[j] = "*/" /\ Then(text, i, j)
    \/ Has(text, "xp_")
    \/ \E i \in DOMAIN text : i < Len(text) /\ text[i] = "0x" /\ text[i+1] \in HexStart
    \/ Has(text, "0x1f")

XSS_PATTERNS(text) ==
    \/ Has(text, "<script")
    \/ Has(text, "javascript:")
    \/ Has(text, "onerror=")
    \/ Has(text, "onload=")
    \/ Has(text, "<iframe")
    \/ \E i, j \in DOMAIN text :
           text[i] = "<svg" /\ text[j] \in {"onload", "onload="} /\ Then(text, i, j)
    \/ BlankOptional(text, "alert", "(")
    \/ Has(text, "document.cookie")

PATH_TRAVERSAL(text) ==
    \/ Has(text, "../")
    \/ Has(text, "..\\")
    \/ Has(text, "%2e%2e%2f")
    \/ Has(text, "%252e%252e")

CMD_INJECTION(text) ==
    \/ Has(text, "|")
    \/ Has(text, ";")
    \/ Has(text, "&&")
    \/ Has(text, "$(")
    \/ Has(text, "BACKTICK")    \* the backquote character
    \/ BlankSeparated(text, "nc", {"-", "--"})
    \/ BlankSeparated(text, "wget", {"http"})
    \/ BlankSeparated(text, "curl", {"http"})

\* combined = f"{path} {query} {body}"
Combined(path, query, body) == path \o <<" ">> \o query \o <<" ">> \o body

ClassifyXssFirst(combined) ==
    IF XSS_PATTERNS(combined) THEN "XSS"
    ELSE IF SQLI_PATTERNS(combined) THEN "SQL_INJECTION"
    ELSE IF PATH_TRAVERSAL(combined) THEN "PATH_TRAVERSAL"
    ELSE IF CMD_INJECTION(combined) THEN "CMD_INJECTION"
    ELSE NoAttack

\* the if / elif chain of inspect_payload
Classify(combined) ==
    IF SQLI_PATTERNS(combined) THEN "SQL_INJECTION"
    ELSE IF XSS_PATTERNS(combined) THEN "XSS"
    ELSE IF PATH_TRAVERSAL(combined) THEN "PATH_TRAVERSAL"
    ELSE IF CMD_INJECTION(combined) THEN "CMD_INJECTION"
    ELSE NoAttack

inspect_payload(ip, path, query, body, io_ok) ==
    LET attack_type == Classify(Combined(path, query, body))
    IN  /\ IF attack_type # NoAttack
           THEN /\ payload_hits' =
                       DequeAppend(payload_hits,
                                   [ip |-> ip, type |-> attack_type, path |-> path,
                                    timestamp |-> now], PAYLOAD_MAXLEN)
                /\ failed_logins' = ban_ip(failed_logins, ip, now)
                /\ ban_file' = save_bans(failed_logins', now, io_ok)
                /\ NoteBan(failed_logins', ip)
           ELSE /\ UNCHANGED <<payload_hits, failed_logins, ban_file>>
                /\ NoBan
        /\ ret' = IF attack_type # NoAttack
                  THEN AfterSave(io_ok, Result(TRUE, None, attack_type))
                  ELSE Result(FALSE, None, NoAttack)
        /\ UNCHANGED <<now, burst_tracker, honeypot_hits, cleanup_pc,
                       cleanup_wake, nticks>>

\* ----------------------------------------------------------------- honeypot
record_honeypot_hit_unless_banned(ip, path, user_agent, io_ok) ==
    /\ honeypot_hits' =
          DequeAppend(honeypot_hits,
                      [ip |-> ip, path |-> path, timestamp |-> now,
                       user_agent |-> user_agent], HONEYPOT_MAXLEN)
    /\ IF IsBannedResult(ip).ok
       THEN /\ UNCHANGED <<failed_logins, ban_file>>
            /\ NoBan
       ELSE /\ failed_logins' = ban_ip(failed_logins, ip, now)
            /\ ban_file' = save_bans(failed_logins', now, io_ok)
            /\ NoteBan(failed_logins', ip)
    /\ ret' = IF IsBannedResult(ip).ok THEN NoResult ELSE AfterSave(io_ok, NoResult)
    /\ UNCHANGED <<now, burst_tracker, payload_hits, cleanup_pc, cleanup_wake, request,
                   nticks>>

record_honeypot_hit(ip, path, user_agent, io_ok) ==
    /\ honeypot_hits' =
          DequeAppend(honeypot_hits,
                      [ip |-> ip, path |-> path, timestamp |-> now,
                       user_agent |-> user_agent], HONEYPOT_MAXLEN)
    /\ failed_logins' = ban_ip(failed_logins, ip, now)
    /\ ban_file' = save_bans(failed_logins', now, io_ok)
    /\ NoteBan(failed_logins', ip)
    /\ ret' = AfterSave(io_ok, NoResult)
    /\ UNCHANGED <<now, burst_tracker, payload_hits, cleanup_pc, cleanup_wake, request, nticks>>

\* -------------------------------------------------------- background cleanup
\* one iteration of _cleanup_loop, the part under the lock
cleanup_sweep ==
    /\ cleanup_pc = "sleep" /\ now >= cleanup_wake
    /\ LET expired == {ip \in DOMAIN failed_logins :
                          /\ failed_logins[ip].ban_until # None
                          /\ failed_logins[ip].ban_until <= now
                          /\ failed_logins[ip].timestamps = <<>>}
           old_burst == {ip \in DOMAIN burst_tracker : burst_tracker[ip] = <<>>}
       IN  /\ failed_logins' = Drop(failed_logins, expired)
           /\ burst_tracker' = Drop(burst_tracker, old_burst)
    /\ cleanup_pc' = "save"
    /\ UNCHANGED <<now, honeypot_hits, payload_hits, ban_file, cleanup_wake, ret,
                   request, bans_total, prev_until, nbans, nticks>>

\* the _save_bans() that ends the iteration runs after the lock is released, so
\* calls of the request thread can run between its steps: first it builds the dict
cleanup_snapshot ==
    /\ cleanup_pc = "save"
    /\ cleanup_bans' = Snapshot(failed_logins, now)
    /\ cleanup_pc' = "write"
    /\ UNCHANGED <<now, failed_logins, burst_tracker, honeypot_hits, payload_hits,
                   ban_file, cleanup_wake, ret, request, bans_total, prev_until,
                   nbans, ncalls, nticks>>

\* ... then it writes the dict it built to BAN_STATE_FILE
cleanup_write(io_ok) ==
    /\ cleanup_pc = "write"
    /\ ban_file' = IF io_ok THEN cleanup_bans ELSE ban_file
    /\ cleanup_bans' = EmptyMap
    /\ cleanup_pc' = "sleep"
    /\ cleanup_wake' = now + Sec(CLEANUP_INTERVAL)
    /\ UNCHANGED <<now, failed_logins, burst_tracker, honeypot_hits, payload_hits,
                   ret, request, bans_total, prev_until, nbans, ncalls, nticks>>

\* ------------------------------------------------------------ specification
Queries == {<<>>, <<"--">>}

\* the part of the state space the model explores
NoteCall == ncalls' = ncalls + 1
NoCall == UNCHANGED ncalls

Within ==
    /\ ncalls <= MaxCalls
    /\ nticks <= MaxTicks

\* a step of the threat engine's ban machinery
NextBans ==
    \/ Tick /\ NoCall /\ Within' /\ UNCHANGED <<cleanup_bans, scoreVars, notEngine>>
    \/ \E ip \in IPs :
           record_failed_login(ip, TRUE) /\ NoteCall /\ Within' /\ UNCHANGED <<cleanup_bans, scoreVars, notEngine>>
    \/ \E ip \in IPs : record_successful_login(ip) /\ NoCall /\ UNCHANGED <<cleanup_bans, scoreVars, notEngine>>
    \/ \E ip \in IPs : is_ip_banned(ip) /\ NoCall /\ UNCHANGED <<cleanup_bans, scoreVars, notEngine>>
    \/ \E ip \in IPs : unblock_ip(ip, TRUE) /\ NoCall /\ UNCHANGED <<cleanup_bans, scoreVars, notEngine>>
    \/ \E ip \in IPs :
           check_ddos(ip, TRUE) /\ NoteCall /\ Within' /\ UNCHANGED <<cleanup_bans, scoreVars, notEngine>>
    \/ \E ip \in IPs, path \in Paths, query \in Queries :
           /\ inspect_payload(ip, path, query, <<>>, TRUE)
           /\ UNCHANGED request /\ NoteCall /\ Within' /\ UNCHANGED <<cleanup_bans, scoreVars, notEngine>>
    \/ \E ip \in IPs, path \in Paths, ua \in UserAgents :
           /\ record_honeypot_hit(ip, path, ua, TRUE)
           /\ NoteCall /\ Within' /\ UNCHANGED <<cleanup_bans, scoreVars, notEngine>>
    \/ cleanup_sweep /\ NoCall /\ UNCHANGED <<cleanup_bans, scoreVars, notEngine>>
    \/ cleanup_snapshot /\ UNCHANGED <<scoreVars, notEngine>>
    \/ cleanup_write(TRUE) /\ UNCHANGED <<scoreVars, notEngine>>

Next == NextBans

Spec == Init /\ [][Next]_vars

\* ------------------------------------------- specification of the classifier
\* inspect_payload applied once to every request built from the lexemes below
PayloadLexemes == {"union", "select", "--", "<script", "../", ";"}
MaxPathLen  == 2    \* lexemes in a path
MaxQueryLen == 1    \* lexemes in a query string
MaxBodyLen  == 0    \* lexemes in a body

TextsUpTo(n) == UNION {[1 .. m -> PayloadLexemes] : m \in 0 .. n}

NextPayload ==
    /\ request = NoRequest
    /\ \E ip \in IPs, path \in TextsUpTo(MaxPathLen),
          query \in TextsUpTo(MaxQueryLen), body \in TextsUpTo(MaxBodyLen) :
           /\ inspect_payload(ip, path, query, body, TRUE)
           /\ request' = Request(ip, path, query, body)
    /\ NoteCall
    /\ UNCHANGED <<cleanup_bans, scoreVars, notEngine>>

InitPayload == Init /\ failed_logins = EmptyMap /\ burst_tracker = EmptyMap

SpecPayload == InitPayload /\ [][NextPayload]_vars

\* ------------------------------------------------------------ threat score
CPU_WEIGHT       == 15
MEMORY_WEIGHT    == 15
NETWORK_WEIGHT   == 20
BANNED_WEIGHT    == 20
HONEYPOT_WEIGHT  == 15
PAYLOAD_WEIGHT   == 15
CONNS_PER_POINT  == 5       \* conn_score = conns / 5
POINTS_PER_BAN   == 10      \* ban_score = banned * 10
POINTS_PER_HONEY == 5       \* honey_score = recent_honey * 5
POINTS_PER_PAYLOAD == 10    \* payload_score = recent_payload * 10
MAX_SCORE        == 100
RECENT_WINDOW    == 3600    \* "last hour"
CRITICAL_FROM    == 80
HIGH_FROM        == 60
MEDIUM_FROM      == 40

\* len(get_blocked_ips()): the records whose ban has not run out
BlockedCount(fl, t) ==
    Cardinality({ip \in DOMAIN fl : fl[ip].ban_until # None /\ t < fl[ip].ban_until})

\* sum(1 for h in hits if (now - h.timestamp).total_seconds() < 3600)
RecentCount(hits, t) ==
    Cardinality({i \in DOMAIN hits : t - hits[i].timestamp < Sec(RECENT_WINDOW)})

\* the level of a score
Level(final) ==
    IF final >= CRITICAL_FROM THEN "critical"
    ELSE IF final >= HIGH_FROM THEN "high"
    ELSE IF final >= MEDIUM_FROM THEN "medium"
    ELSE "low"

\* weighted_score and total_weight, both times CONNS_PER_POINT so that the
\* connection score conns / 5 stays an integer; conns = None: net_connections()
\* raised and the factor was skipped
WeightedScore(cpu, mem, conns, banned, recent_honey, recent_payload) ==
      CONNS_PER_POINT *
        ( Min(cpu, MAX_SCORE) * CPU_WEIGHT
        + Min(mem, MAX_SCORE) * MEMORY_WEIGHT
        + Min(banned * POINTS_PER_BAN, MAX_SCORE) * BANNED_WEIGHT
        + Min(recent_honey * POINTS_PER_HONEY, MAX_SCORE) * HONEYPOT_WEIGHT
        + Min(recent_payload * POINTS_PER_PAYLOAD, MAX_SCORE) * PAYLOAD_WEIGHT )
    + (IF conns = None THEN 0
       ELSE Min(conns, MAX_SCORE * CONNS_PER_POINT) * NETWORK_WEIGHT)

TotalWeight(conns) ==
    CONNS_PER_POINT *
      ( CPU_WEIGHT + MEMORY_WEIGHT + BANNED_WEIGHT + HONEYPOT_WEIGHT + PAYLOAD_WEIGHT
      + (IF conns = None THEN 0 ELSE NETWORK_WEIGHT) )

\* round(weighted / total), ties to the even neighbour
FinalRounded(weighted, total) ==
    LET q == weighted \div total
        r == weighted % total
    IN  IF 2 * r > total \/ (2 * r = total /\ q % 2 = 1) THEN q + 1 ELSE q

\* int(weighted_score / total_weight) if total_weight else 0
Final(weighted, total) == IF total # 0 THEN weighted \div total ELSE 0

\* the part of calculate_threat_score below the two early returns
FactorScore(cpu, mem, conns, banned, recent_honey, recent_payload) ==
    LET final == Min(Final(WeightedScore(cpu, mem, conns, banned, recent_honey,
                                         recent_payload),
                           TotalWeight(conns)), MAX_SCORE)
    IN  Score(final, Level(final), FALSE,
              Factors(cpu, mem, conns, banned, recent_honey, recent_payload))

\* the dict returned while the kill switch is on
KillSwitchScore == Score(MAX_SCORE, "critical", TRUE, NoFactors)

calculate_threat_score_ignoring_switch(cpu, mem, conns) ==
    /\ score' = FactorScore(cpu, mem, conns, BlockedCount(failed_logins, now),
                            RecentCount(honeypot_hits, now),
                            RecentCount(payload_hits, now))
    /\ UNCHANGED kill_switch_active

\* calculate_threat_score; cpu, mem and conns are what psutil reports
\* (_global_threat_override is None throughout: nothing assigns it)
calculate_threat_score(cpu, mem, conns) ==
    /\ score' = IF kill_switch_active
                THEN KillSwitchScore
                ELSE FactorScore(cpu, mem, conns, BlockedCount(failed_logins, now),
                                 RecentCount(honeypot_hits, now),
                                 RecentCount(payload_hits, now))
    /\ UNCHANGED kill_switch_active

activate_kill_switch ==
    /\ kill_switch_active' = TRUE
    /\ UNCHANGED score

deactivate_kill_switch ==
    /\ kill_switch_active' = FALSE
    /\ UNCHANGED score

\* --------------------------------------- specification of the threat score
ScoreSlack == 1     \* what the engine under attack is short of each factor's cap

\* psutil's readings the model draws from
CpuReadings  == {33, 100}
MemReadings  == {70}
ConnReadings == {None, 7, 600}

\* the engine under attack: SiegeSize addresses, each banned at time 0 for one
\* payload attack and two or three honeypot hits
SiegeSize == MAX_SCORE \div POINTS_PER_BAN - ScoreSlack
SiegeHoneypotHits == MAX_SCORE \div POINTS_PER_HONEY - ScoreSlack
SiegePayloadHits  == MAX_SCORE \div POINTS_PER_PAYLOAD - ScoreSlack
SiegeAttacker(i) == AttackerList[((i - 1) % SiegeSize) + 1]
SiegeBans(ip) ==
      Cardinality({i \in 1 .. SiegeHoneypotHits : SiegeAttacker(i) = ip})
    + Cardinality({i \in 1 .. SiegePayloadHits : SiegeAttacker(i) = ip})
SiegeRecord(k) ==
    [timestamps |-> <<>>, ban_until |-> Sec(BanDuration(k - 1)), offense_count |-> k]
SiegeLogins ==
    [ip \in {SiegeAttacker(i) : i \in 1 .. SiegeSize} |-> SiegeRecord(SiegeBans(ip))]

\* who calls in the threat-score scenarios: an address of the siege, or a new one
ScoreCallers == {AttackerList[1], AttackerList[SiegeSize + ncalls + 1]}

\* the clock readings of the threat-score scenarios: the start, and the end of the
\* hour after it, which is also the end of a first ban
ScoreInstants == {0, Sec(RECENT_WINDOW) - 1, Sec(RECENT_WINDOW)}

InitScore ==
    /\ now = 0
    /\ \E scenario \in {"quiet", "siege"} :
          /\ failed_logins = IF scenario = "siege" THEN SiegeLogins ELSE EmptyMap
          /\ honeypot_hits =
                IF scenario = "siege"
                THEN [i \in 1 .. SiegeHoneypotHits |->
                         [ip |-> SiegeAttacker(i), path |-> <<"/login">>,
                          timestamp |-> 0, user_agent |-> "curl"]]
                ELSE <<>>
          /\ payload_hits =
                IF scenario = "siege"
                THEN [i \in 1 .. SiegePayloadHits |->
                         [ip |-> SiegeAttacker(i), type |-> "SQL_INJECTION",
                          path |-> <<"/login">>, timestamp |-> 0]]
                ELSE <<>>
          /\ bans_total = [ip \in Clients |->
                              IF scenario = "siege" /\ ip \in DOMAIN SiegeLogins
                              THEN SiegeBans(ip) ELSE 0]
          /\ ban_file = Snapshot(failed_logins, 0)
    /\ burst_tracker = EmptyMap
    /\ cleanup_pc = "sleep"
    /\ cleanup_wake = Sec(CLEANUP_INTERVAL)
    /\ ret = NoResult
    /\ request = NoRequest
    /\ prev_until = [ip \in Clients |-> None]
    /\ nbans = 0
    /\ ncalls = 0
    /\ nticks = 0
    /\ cleanup_bans = EmptyMap
    /\ kill_switch_active = FALSE
    /\ score = NoScore
    /\ InitLimiter
    /\ response = NoResponse
    /\ InitDetector
    /\ InitOther

NextScore ==
    \/ /\ TickTo(ScoreInstants) /\ NoCall /\ Within'
       /\ UNCHANGED <<cleanup_bans, scoreVars, notEngine>>
    \/ \E ip \in ScoreCallers, path \in Paths :
           /\ inspect_payload(ip, path, <<"--">>, <<>>, TRUE)
           /\ UNCHANGED request /\ NoteCall /\ Within'
           /\ UNCHANGED <<cleanup_bans, scoreVars, notEngine>>
    \/ \E ip \in ScoreCallers, path \in Paths, ua \in UserAgents :
           /\ record_honeypot_hit(ip, path, ua, TRUE) /\ NoteCall /\ Within'
           /\ UNCHANGED <<cleanup_bans, scoreVars, notEngine>>
    \/ activate_kill_switch /\ UNCHANGED <<banVars, cleanup_bans, notEngine>>
    \/ deactivate_kill_switch /\ UNCHANGED <<banVars, cleanup_bans, notEngine>>
    \/ \E cpu \in CpuReadings, mem \in MemReadings, conns \in ConnReadings :
           /\ calculate_threat_score(cpu, mem, conns)
           /\ UNCHANGED <<banVars, cleanup_bans, notEngine>>

SpecScore == InitScore /\ [][NextScore]_vars

\* ------------------------------------------- specification of persistence
\* The process is started again: the module-level engine is constructed anew, its
\* state empty but for what _load_bans restores; load_ok = FALSE: the file is there
\* but reading or parsing it raised.
restart(load_ok) ==
    /\ failed_logins' = IF load_ok THEN Loaded(ban_file, now) ELSE EmptyMap
    /\ burst_tracker' = EmptyMap
    /\ honeypot_hits' = <<>>
    /\ payload_hits' = <<>>
    /\ kill_switch_active' = FALSE
    /\ cleanup_pc' = "sleep"
    /\ cleanup_wake' = now + Sec(CLEANUP_INTERVAL)
    /\ cleanup_bans' = EmptyMap
    /\ ret' = NoResult
    /\ bans_total' = [ip \in Clients |->
                         IF ip \in DOMAIN failed_logins'
                         THEN failed_logins'[ip].offense_count ELSE 0]
    /\ prev_until' = [ip \in Clients |-> None]
    /\ UNCHANGED <<now, ban_file, request, nbans, ncalls, nticks, score>>

\* the ban operations with writes that succeed or fail, and restarts with a
\* snapshot that can or cannot be read
NextPersist ==
    \/ /\ Tick /\ NoCall /\ Within'
       /\ UNCHANGED <<cleanup_bans, scoreVars, notEngine>>
    \/ \E ip \in IPs, io_ok \in BOOLEAN :
           /\ record_failed_login(ip, io_ok) /\ NoteCall /\ Within'
           /\ UNCHANGED <<cleanup_bans, scoreVars, notEngine>>
    \/ \E ip \in IPs, io_ok \in BOOLEAN :
           /\ unblock_ip(ip, io_ok) /\ NoCall
           /\ UNCHANGED <<cleanup_bans, scoreVars, notEngine>>
    \/ \E ip \in IPs, io_ok \in BOOLEAN :
           /\ check_ddos(ip, io_ok) /\ NoteCall /\ Within'
           /\ UNCHANGED <<cleanup_bans, scoreVars, notEngine>>
    \/ \E ip \in IPs, path \in Paths, io_ok \in BOOLEAN :
           /\ inspect_payload(ip, path, <<"--">>, <<>>, io_ok)
           /\ UNCHANGED request /\ NoteCall /\ Within'
           /\ UNCHANGED <<cleanup_bans, scoreVars, notEngine>>
    \/ \E ip \in IPs, path \in Paths, ua \in UserAgents, io_ok \in BOOLEAN :
           /\ record_honeypot_hit(ip, path, ua, io_ok) /\ NoteCall /\ Within'
           /\ UNCHANGED <<cleanup_bans, scoreVars, notEngine>>
    \/ \E load_ok \in BOOLEAN : restart(load_ok) /\ UNCHANGED notEngine

SpecPersist == Init /\ [][NextPersist]_vars

\* ------------------------------------------------------------ rate limiter
RATE_LIMITS ==
    [login           |-> [max_requests |-> 5,   window_seconds |-> 60],
     register        |-> [max_requests |-> 3,   window_seconds |-> 60],
     forgot_password |-> [max_requests |-> 2,   window_seconds |-> 60],
     api             |-> [max_requests |-> 120, window_seconds |-> 60],
     ws              |-> [max_requests |-> 5,   window_seconds |-> 60],
     public          |-> [max_requests |-> 30,  window_seconds |-> 60],
     default         |-> [max_requests |-> 60,  window_seconds |-> 60]]
ATTACK_MODE_TENTHS  == 4      \* ATTACK_MODE_MULTIPLIER = 0.4
HALVED_FROM         == 5      \* offenses from which the limit is halved
QUARTERED_FROM      == 10     \* offenses from which the limit is quartered
CIRCUIT_RETRY_AFTER == 30
CIRCUIT_WINDOW      == 60
STALE_AFTER         == 120    \* _background_loop drops what is older
CPU_ATTACK_ABOVE    == 90
CPU_CALM_BELOW      == 60

Max(a, b) == IF a >= b THEN a ELSE b

\* the engine's variables that are neither the clock nor a budget
engineVars == <<failed_logins, burst_tracker, honeypot_hits, payload_hits, ban_file,
                cleanup_pc, cleanup_wake, ret, request, bans_total, prev_until, nbans>>

InWindowInclusive(ts, t, window) == t - ts <= window

\* if now - ts < window
InWindow(ts, t, window) == t - ts < window

AttackLimitNoFloor(max_req) == (max_req * ATTACK_MODE_TENTHS) \div 10

\* max(1, int(max_req * ATTACK_MODE_MULTIPLIER))
AttackLimit(max_req) == Max(1, (max_req * ATTACK_MODE_TENTHS) \div 10)

OffenseLimitAbove(max_req, offenses) ==
    IF offenses > QUARTERED_FROM THEN Max(1, max_req \div 4)
    ELSE IF offenses > HALVED_FROM THEN Max(1, max_req \div 2)
    ELSE max_req

\* the penalty for repeat offenders
OffenseLimit(max_req, offenses) ==
    IF offenses >= QUARTERED_FROM THEN Max(1, max_req \div 4)
    ELSE IF offenses >= HALVED_FROM THEN Max(1, max_req \div 2)
    ELSE max_req

CircuitExemptHealthOnly(category) == category = "health"

\* category not in ("health", "public")
CircuitExempt(category) == category \in {"health", "public"}

\* self._blocked_count.get(ip, 0)
Offenses(ip) == IF ip \in DOMAIN blocked_count THEN blocked_count[ip] ELSE 0

\* SlidingWindowRateLimiter.check
check(ip, category) ==
    /\ IF circuit_open /\ ~CircuitExempt(category)
       THEN /\ info' = Info(FALSE, category, 0, 0, CIRCUIT_RETRY_AFTER, CIRCUIT_WINDOW,
                            "circuit_breaker")
            /\ UNCHANGED <<requests, blocked_count, total_blocked>>
       ELSE LET config   == IF category \in DOMAIN RATE_LIMITS
                            THEN RATE_LIMITS[category] ELSE RATE_LIMITS["default"]
                window   == config.window_seconds
                tight    == IF attack_mode THEN AttackLimit(config.max_requests)
                            ELSE config.max_requests
                offenses == Offenses(ip)
                max_req  == OffenseLimit(tight, offenses)
                key      == <<ip, category>>
                old      == IF key \in DOMAIN requests THEN requests[key] ELSE <<>>
                kept     == SelectSeq(old, LAMBDA ts : InWindow(ts, now, Sec(window)))
                current  == Len(kept)
                oldest   == IF kept # <<>> THEN kept[1] ELSE now
            IN  IF current >= max_req
                THEN /\ requests' = Put(requests, key, kept)
                     /\ blocked_count' = Put(blocked_count, ip, offenses + 1)
                     /\ total_blocked' = total_blocked + 1
                     /\ info' = Info(FALSE, category, max_req, 0,
                                     ToInt(Sec(window) - (now - oldest)) + 1, window, "")
                ELSE /\ requests' = Put(requests, key, Append(kept, now))
                     /\ info' = Info(TRUE, category, max_req, max_req - current - 1,
                                     None, window, "")
                     /\ UNCHANGED <<blocked_count, total_blocked>>
    /\ UNCHANGED <<attack_mode, circuit_open>>

set_attack_mode(active) ==
    /\ attack_mode' = active
    /\ UNCHANGED <<requests, blocked_count, total_blocked, circuit_open, info>>

set_circuit_breaker(open_) ==
    /\ circuit_open' = open_
    /\ UNCHANGED <<requests, blocked_count, total_blocked, attack_mode, info>>

EnablesAttackInclusive(cpu) == cpu >= CPU_ATTACK_ABOVE

\* if cpu > 90: self.set_attack_mode(True)
EnablesAttack(cpu) == cpu > CPU_ATTACK_ABOVE

\* elif cpu < 60: self.set_attack_mode(False)
DisablesAttack(cpu) == cpu < CPU_CALM_BELOW

\* the attack mode after the try block of _background_loop; cpu is None when
\* psutil.cpu_percent raised, which the except clause passes over
AutoTuned(cpu, mode) ==
    IF cpu = None THEN mode
    ELSE IF EnablesAttack(cpu) THEN TRUE
    ELSE IF DisablesAttack(cpu) THEN FALSE
    ELSE mode

SweptAtHalfWindow(reqs, t) ==
    LET pruned == [key \in DOMAIN reqs |->
                      SelectSeq(reqs[key],
                                LAMBDA ts : t - ts < Sec(CIRCUIT_WINDOW) \div 2)]
    IN  Drop(pruned, {key \in DOMAIN pruned : pruned[key] = <<>>})

\* the sweep of _background_loop at time t, under the lock: every list keeps the
\* timestamps with now - t < 120, and a key whose list is empty is deleted
Swept(reqs, t) ==
    LET pruned == [key \in DOMAIN reqs |->
                      SelectSeq(reqs[key],
                                LAMBDA ts : t - ts < Sec(STALE_AFTER))]
    IN  Drop(pruned, {key \in DOMAIN pruned : pruned[key] = <<>>})

\* one iteration of _background_loop; cpu is what psutil reports
background_loop(cpu) ==
    /\ requests' = Swept(requests, now)
    /\ attack_mode' = AutoTuned(cpu, attack_mode)
    /\ UNCHANGED <<blocked_count, total_blocked, circuit_open, info>>

\* ------------------------------------- specification of the rate limiter
MaxChecks    == 3     \* calls of check in a behaviour
LimiterSlack == 2     \* requests missing to the base limit in a pre-filled window

Categories == DOMAIN RATE_LIMITS \cup {"health"}
BaseLimit(category) ==
    IF category \in DOMAIN RATE_LIMITS THEN RATE_LIMITS[category].max_requests
    ELSE RATE_LIMITS["default"].max_requests

\* the clock readings of the rate limiter's scenarios: around the end of the
\* window that starts at 0, and the age at which the background loop drops entries
LimiterInstants == {0, 1, Sec(CIRCUIT_WINDOW) - 1, Sec(CIRCUIT_WINDOW), Sec(STALE_AFTER)}

\* the rate limiter after one client made all but LimiterSlack of the requests one
\* category allows, at time 0, having been rejected that many times before
InitSpecLimiter ==
    /\ InitBans
    /\ failed_logins = EmptyMap /\ burst_tracker = EmptyMap
    /\ cleanup_bans = EmptyMap
    /\ kill_switch_active = FALSE
    /\ score = NoScore
    /\ \E ip \in IPs, category \in Categories,
          offenses \in {0, HALVED_FROM - 1, HALVED_FROM, QUARTERED_FROM} :
          LET n == Max(0, BaseLimit(category) - LimiterSlack)
          IN  /\ requests = IF n = 0 THEN EmptyMap
                            ELSE [key \in {<<ip, category>>} |-> [i \in 1 .. n |-> 0]]
              /\ blocked_count = IF offenses = 0 THEN EmptyMap
                                 ELSE [x \in {ip} |-> offenses]
              /\ total_blocked = offenses
    /\ attack_mode = FALSE
    /\ circuit_open = FALSE
    /\ info = NoInfo
    /\ response = NoResponse
    /\ InitDetector
    /\ InitOther

\* what a step of the rate limiter leaves alone
notLimiter == <<cleanup_bans, scoreVars, response, detectorVars, otherVars>>

\* a behaviour checks one category
\* what psutil.cpu_percent reports to the background loop: below, on and above
\* the two thresholds, or an exception
CpuSamples == {None, CPU_CALM_BELOW - 1, CPU_CALM_BELOW, CPU_ATTACK_ABOVE, CPU_ATTACK_ABOVE + 1}

NextLimiter ==
    \/ /\ TickTo(LimiterInstants) /\ NoCall /\ nticks' <= MaxTicks
       /\ UNCHANGED <<limiterVars, notLimiter>>
    \/ \E ip \in IPs, category \in Categories :
           /\ requests = EmptyMap \/ <<ip, category>> \in DOMAIN requests
           /\ info = NoInfo \/ info.category = category
           /\ check(ip, category)
           /\ NoteCall /\ ncalls' <= MaxChecks
           /\ UNCHANGED <<now, nticks, engineVars, notLimiter>>
    \/ \E active \in BOOLEAN :
           /\ set_attack_mode(active) /\ NoCall
           /\ UNCHANGED <<now, nticks, engineVars, notLimiter>>
    \/ \E open_ \in BOOLEAN :
           /\ set_circuit_breaker(open_) /\ NoCall
           /\ UNCHANGED <<now, nticks, engineVars, notLimiter>>
    \/ \E cpu \in CpuSamples :
           /\ background_loop(cpu) /\ NoCall
           /\ UNCHANGED <<now, nticks, engineVars, notLimiter>>

SpecLimiter == InitSpecLimiter /\ [][NextLimiter]_vars

\* ------------------------------------------------------ security middleware
WHITELISTED_IPS == {"127.0.0.1", "::1"}

\* SlidingWindowRateLimiter.classify_request, on a path given as its lexemes
classify_request(path) ==
    IF Has(path, "/api/auth/login") THEN "login"
    ELSE IF Has(path, "/api/auth/register") THEN "register"
    ELSE IF Has(path, "/api/auth/forgot-password") THEN "forgot_password"
    ELSE IF path # <<>> /\ Lower(path[1]) = "/ws" THEN "ws"
    ELSE IF path \in {<<"/health">>, <<"/">>} THEN "public"
    ELSE IF path # <<>> /\ Lower(path[1]) = "/api/" THEN "api"
    ELSE "default"

RunsLimiterAlways(is_banned, ddos) == TRUE

\* the rate limit check is reached when neither earlier check has returned
RunsLimiter(is_banned, ddos) == ~is_banned /\ ~ddos

\* security_middleware with both engines enabled: the four checks in the order of
\* the code, each returning the response of the first that fails
security_middleware(ip, path, query) ==
    IF ip \in WHITELISTED_IPS
    THEN /\ response' = Response(<<"call_next">>, 200)
         /\ UNCHANGED <<failed_logins, burst_tracker, payload_hits, ban_file,
                        limiterVars>>
         /\ NoBan
    ELSE LET is_banned == IsBannedResult(ip).ok
             \* 1. is_ip_banned clears a ban that has run out
             fl0  == IF /\ ip \in DOMAIN failed_logins
                        /\ failed_logins[ip].ban_until # None
                        /\ ~(now < failed_logins[ip].ban_until)
                     THEN [failed_logins EXCEPT ![ip].ban_until = None,
                                                ![ip].timestamps = <<>>]
                     ELSE failed_logins
             \* 2. check_ddos
             old  == IF ip \in DOMAIN burst_tracker THEN burst_tracker[ip] ELSE <<>>
             ts   == RunsAppend(PruneRuns(old, now, Sec(DDOS_WINDOW)), now, BURST_MAXLEN)
             ddos == ~is_banned /\ IsBurst(RunsLen(ts))
             \* 4. inspect_payload
             attack_type == Classify(Combined(path, query, <<>>))
         IN  /\ burst_tracker' = IF is_banned THEN burst_tracker
                                 ELSE Put(burst_tracker, ip, ts)
             \* 3. rate_limiter.check
             /\ IF RunsLimiter(is_banned, ddos)
                THEN check(ip, classify_request(path))
                ELSE UNCHANGED limiterVars
             /\ LET limited  == ~is_banned /\ ~ddos /\ ~info'.allowed
                    inspects == ~is_banned /\ ~ddos /\ ~limited
                    attack   == inspects /\ attack_type # NoAttack
                    ran      == <<"is_ip_banned">>
                                \o (IF is_banned THEN <<>> ELSE <<"check_ddos">>)
                                \o (IF RunsLimiter(is_banned, ddos)
                                    THEN <<"check">> ELSE <<>>)
                                \o (IF inspects THEN <<"inspect_payload">> ELSE <<>>)
                                \o (IF inspects /\ ~attack THEN <<"call_next">> ELSE <<>>)
                IN  /\ payload_hits' =
                          IF attack
                          THEN DequeAppend(payload_hits,
                                           [ip |-> ip, type |-> attack_type,
                                            path |-> path, timestamp |-> now],
                                           PAYLOAD_MAXLEN)
                          ELSE payload_hits
                    /\ failed_logins' = IF ddos \/ attack THEN ban_ip(fl0, ip, now)
                                        ELSE fl0
                    /\ ban_file' = IF ddos \/ attack
                                   THEN save_bans(failed_logins', now, TRUE)
                                   ELSE ban_file
                    /\ IF ddos \/ attack THEN NoteBan(failed_logins', ip) ELSE NoBan
                    /\ response' = Response(ran,
                                            IF is_banned THEN 403
                                            ELSE IF ddos \/ limited THEN 429
                                            ELSE IF attack THEN 400
                                            ELSE 200)

\* ------------------------------------- specification of the middleware
MiddlewareIPs   == IPs \cup {"127.0.0.1"}
MiddlewarePaths == {<<"/api/auth/login">>, <<"/health">>}

\* a record banned at time 0 for the first time
FirstBan == [timestamps |-> <<>>, ban_until |-> Sec(BAN_DURATIONS[1]), offense_count |-> 1]

\* the application with one client banned, or just short of the burst limit, or
\* just short of the login rate limit, or unknown
InitMiddleware ==
    /\ now = 0
    /\ \E scenario \in {"fresh", "banned", "burst", "limited"}, who \in IPs :
          /\ failed_logins = IF scenario = "banned" THEN [ip \in {who} |-> FirstBan]
                             ELSE EmptyMap
          /\ ban_file = Snapshot(failed_logins, 0)
          /\ bans_total = [ip \in Clients |->
                              IF scenario = "banned" /\ ip = who THEN 1 ELSE 0]
          /\ prev_until = [ip \in Clients |->
                              IF scenario = "banned" /\ ip = who
                              THEN FirstBan.ban_until ELSE None]
          /\ burst_tracker = IF scenario = "burst"
                             THEN [ip \in {who} |-> BurstPrefill] ELSE EmptyMap
          /\ requests = IF scenario = "limited"
                        THEN [key \in {<<who, "login">>} |->
                                 [i \in 1 .. Max(1, BaseLimit("login") - LimiterSlack) |-> 0]]
                        ELSE EmptyMap
    /\ honeypot_hits = <<>>
    /\ payload_hits = <<>>
    /\ cleanup_pc = "sleep"
    /\ cleanup_wake = Sec(CLEANUP_INTERVAL)
    /\ ret = NoResult
    /\ request = NoRequest
    /\ nbans = 0
    /\ ncalls = 0
    /\ nticks = 0
    /\ cleanup_bans = EmptyMap
    /\ kill_switch_active = FALSE
    /\ score = NoScore
    /\ blocked_count = EmptyMap
    /\ total_blocked = 0
    /\ attack_mode = FALSE
    /\ circuit_open = FALSE
    /\ info = NoInfo
    /\ response = NoResponse
    /\ InitDetector
    /\ InitOther

NextMiddleware ==
    \/ /\ Tick /\ NoCall /\ nticks' <= MaxTicks
       /\ UNCHANGED <<cleanup_bans, scoreVars, notEngine>>
    \/ \E ip \in MiddlewareIPs, path \in MiddlewarePaths, query \in Queries :
           /\ security_middleware(ip, path, query)
           /\ NoteCall /\ ncalls' <= MaxChecks
           /\ UNCHANGED <<now, nticks, honeypot_hits, cleanup_pc, cleanup_wake, ret,
                          request, cleanup_bans, scoreVars, detectorVars, otherVars>>

SpecMiddleware == InitMiddleware /\ [][NextMiddleware]_vars

\* -------------------------------------------------------- anomaly detector
WINDOW_SIZE      == 120
MIN_SAMPLES      == 20
MAX_ANOMALIES    == 200
STREAK_THRESHOLD == 3
Z_THRESHOLD      == <<5, 2>>      \* z_threshold = 2.5, as a fraction
DISK_FACTOR      == <<3, 2>>      \* the disk threshold is z_threshold * 1.5

RECURSIVE SeqSum(_)
SeqSum(data) ==                                     \* sum(data), added by halves
    IF Len(data) = 0 THEN 0
    ELSE IF Len(data) = 1 THEN data[1]
    ELSE LET half == Len(data) \div 2
         IN  SeqSum(SubSeq(data, 1, half)) + SeqSum(SubSeq(data, half + 1, Len(data)))

\* _calculate_z_score(value, *_calculate_stats(data)) > a / b, in integers: with
\* n = len(data) and S = sum(data), the z-score |value - S/n| / std exceeds a / b
\* exactly when std is not 0 and b^2 (n - 1) (n value - S)^2 > a^2 sum (n x - S)^2
ZScoreAbove(data, value, threshold) ==
    LET n   == Len(data)
        S   == SeqSum(data)
        dev == [i \in 1 .. n |-> (n * data[i] - S) * (n * data[i] - S)]
        ss  == SeqSum(dev)
        a   == threshold[1]
        b   == threshold[2]
    IN  /\ n >= 2
        /\ ss # 0
        /\ b * b * (n - 1) * (n * value - S) * (n * value - S) > a * a * ss

\* the threshold a metric's z-score is compared with
Threshold(metric) ==
    IF metric = "disk"
    THEN <<Z_THRESHOLD[1] * DISK_FACTOR[1], Z_THRESHOLD[2] * DISK_FACTOR[2]>>
    ELSE Z_THRESHOLD

StreakAfterNoReset(streak, breached) == IF breached THEN streak + 1 ELSE streak

\* if z > threshold: self.anomaly_streaks[metric] += 1
\* else: self.anomaly_streaks[metric] = 0
StreakAfter(streak, breached) == IF breached THEN streak + 1 ELSE 0

\* if self.anomaly_streaks[metric] >= self.streak_threshold: anomalies_found.append(...)
Emits(streak) == streak >= STREAK_THRESHOLD

StillLearningInclusive(samples) == samples <= MIN_SAMPLES

\* if len(self.cpu_history) < self.min_samples
StillLearning(samples) == samples < MIN_SAMPLES

\* AnomalyDetector.analyze
analyze(cpu, memory, disk) ==
    LET ch == DequeAppend(cpu_history, cpu, WINDOW_SIZE)
        mh == DequeAppend(memory_history, memory, WINDOW_SIZE)
        dh == DequeAppend(disk_history, disk, WINDOW_SIZE)
        cpu_streak  == StreakAfter(anomaly_streaks.cpu,
                                   ZScoreAbove(ch, cpu, Threshold("cpu")))
        mem_streak  == StreakAfter(anomaly_streaks.memory,
                                   ZScoreAbove(mh, memory, Threshold("memory")))
        disk_streak == StreakAfter(anomaly_streaks.disk,
                                   ZScoreAbove(dh, disk, Threshold("disk")))
        anomalies_found ==
               (IF Emits(cpu_streak)
                THEN << [metric |-> "CPU", value |-> cpu] >> ELSE <<>>)
            \o (IF Emits(mem_streak)
                THEN << [metric |-> "Memory", value |-> memory] >> ELSE <<>>)
            \o (IF Emits(disk_streak)
                THEN << [metric |-> "Disk", value |-> disk] >> ELSE <<>>)
        stored == anomalies \o anomalies_found
    IN  /\ total_checks' = total_checks + 1
        /\ cpu_history' = ch
        /\ memory_history' = mh
        /\ disk_history' = dh
        /\ IF StillLearning(Len(ch))
           THEN /\ analysis' = Analysis("learning", Len(ch), <<>>)
                /\ UNCHANGED <<anomaly_streaks, anomalies, total_anomalies_detected>>
           ELSE /\ anomaly_streaks' = [cpu |-> cpu_streak, memory |-> mem_streak,
                                       disk |-> disk_streak]
                /\ anomalies' = IF Len(stored) > MAX_ANOMALIES
                                THEN SubSeq(stored, Len(stored) - MAX_ANOMALIES + 1,
                                            Len(stored))
                                ELSE stored
                /\ total_anomalies_detected' =
                      total_anomalies_detected + Len(anomalies_found)
                /\ analysis' = Analysis("monitoring", Len(ch), anomalies_found)

\* ---------------------------------- specification of the anomaly detector
MaxAnalyses  == 3     \* calls of analyze in a behaviour
SampleSlack  == 2     \* samples missing to min_samples in the initial windows

\* the readings fed to the detector: a steady value and a spike
Readings == {50, 60}

\* the detector after MIN_SAMPLES - SampleSlack steady readings
InitAnomaly ==
    /\ InitBans
    /\ failed_logins = EmptyMap /\ burst_tracker = EmptyMap
    /\ cleanup_bans = EmptyMap
    /\ kill_switch_active = FALSE
    /\ score = NoScore
    /\ InitOther
    /\ InitLimiter
    /\ response = NoResponse
    /\ cpu_history = [i \in 1 .. (MIN_SAMPLES - SampleSlack) |-> 50]
    /\ memory_history = cpu_history
    /\ disk_history = cpu_history
    /\ anomaly_streaks = [cpu |-> 0, memory |-> 0, disk |-> 0]
    /\ anomalies = <<>>
    /\ total_checks = MIN_SAMPLES - SampleSlack
    /\ total_anomalies_detected = 0
    /\ analysis = Analysis("learning", MIN_SAMPLES - SampleSlack, <<>>)

NextAnomaly ==
    \E cpu \in Readings, memory \in Readings, disk \in Readings :
        /\ analyze(cpu, memory, disk)
        /\ total_checks' <= MIN_SAMPLES - SampleSlack + MaxAnalyses
        /\ UNCHANGED <<banVars, cleanup_bans, scoreVars, limiterVars, response, otherVars>>

SpecAnomaly == InitAnomaly /\ [][NextAnomaly]_vars

\* ------------------------ specification of the detector's streaks (warmed up)
MaxStreakCalls == 3     \* calls of analyze in a behaviour
LongBaseline   == 60    \* steady readings taken before, in the longer of the two baselines

\* the number of steady readings the detector has taken
Baselines == {MIN_SAMPLES, LongBaseline}

Steady(n) == [i \in 1 .. n |-> 50]

\* the detector after n steady readings, n >= MIN_SAMPLES: the windows hold them,
\* no z-score was above 0 and the last call returned monitoring without anomalies
InitStreak ==
    /\ InitBans
    /\ failed_logins = EmptyMap /\ burst_tracker = EmptyMap
    /\ cleanup_bans = EmptyMap
    /\ kill_switch_active = FALSE
    /\ score = NoScore
    /\ InitOther
    /\ InitLimiter
    /\ response = NoResponse
    /\ \E n \in Baselines :
          /\ cpu_history = Steady(n)
          /\ total_checks = n
          /\ analysis = Analysis("monitoring", n, <<>>)
    /\ memory_history = cpu_history
    /\ disk_history = cpu_history
    /\ anomaly_streaks = [cpu |-> 0, memory |-> 0, disk |-> 0]
    /\ anomalies = <<>>
    /\ total_anomalies_detected = 0

\* the number of steady readings the behaviour started from
Baseline == IF total_checks >= LongBaseline THEN LongBaseline ELSE MIN_SAMPLES

NextStreak ==
    \E cpu \in Readings, memory \in Readings, disk \in Readings :
        /\ analyze(cpu, memory, disk)
        /\ total_checks' <= Baseline + MaxStreakCalls
        /\ UNCHANGED <<banVars, cleanup_bans, scoreVars, limiterVars, response, otherVars>>

SpecStreak == InitStreak /\ [][NextStreak]_vars


\* ------------------------------------------------------ self-healing engine
BACKEND_SERVICE    == "brahmastra.service"
NGINX_SERVICE      == "nginx"
BACKEND_PORT       == "8000"
ESCALATE_AFTER     == 3      \* if self.consecutive_fails >= 3

\* what `systemctl is-active` prints (or the text of the exception _run_cmd caught),
\* as the words is_service_running searches
SystemctlOutputs == {<<"active">>, <<"in", "active">>, <<"failed">>}

\* is_service_running: "active" in out
is_service_running(out) == \E i \in DOMAIN out : out[i] = "active"

\* one entry of heal_trace
Op(op, target, flag) == [op |-> op, target |-> target, flag |-> flag]

\* restart_service(service): the command is run; a successful one is counted
RestartOps(service, ok) == << Op("restart", service, ok) >>
Healed(ops) == Cardinality({i \in DOMAIN ops : ops[i].op = "restart" /\ ops[i].flag})

NeedsRestartAlways(running) == TRUE

\* if not self.is_service_running(service): self.restart_service(service)
NeedsRestart(running) == ~running

\* the non-escalated branch of heal: each service is queried and restarted if it
\* was found not running, the backend first
GentleOps(backend_out, nginx_out, backend_ok, nginx_ok) ==
       << Op("is-active", BACKEND_SERVICE, is_service_running(backend_out)) >>
    \o (IF NeedsRestart(is_service_running(backend_out))
        THEN RestartOps(BACKEND_SERVICE, backend_ok) ELSE <<>>)
    \o << Op("is-active", NGINX_SERVICE, is_service_running(nginx_out)) >>
    \o (IF NeedsRestart(is_service_running(nginx_out))
        THEN RestartOps(NGINX_SERVICE, nginx_ok) ELSE <<>>)

\* the escalated branch of heal: kill the listener on the backend port, then
\* restart nginx, then the backend
NuclearOps(killed, backend_ok, nginx_ok) ==
       << Op("kill", BACKEND_PORT, killed) >>
    \o RestartOps(NGINX_SERVICE, nginx_ok)
    \o RestartOps(BACKEND_SERVICE, backend_ok)

\* one call of heal in progress: its argument and where it stands
Frame(escalate, pc) == [escalate |-> escalate, pc |-> pc]
Top == heal_stack[Len(heal_stack)]
SetTop(pc) == [heal_stack EXCEPT ![Len(heal_stack)].pc = pc]
Pop == SubSeq(heal_stack, 1, Len(heal_stack) - 1)

\* heal(reason, escalate) from its first line to the time.sleep(10) before the
\* verification: the call is counted and the remediation is done
heal_enter(stack, trace, escalate, ops) ==
    /\ failure_count' = failure_count + 1
    /\ healed_count' = healed_count + Healed(ops)
    /\ heal_stack' = Append(stack, Frame(escalate, "verify"))
    /\ heal_trace' = trace \o << Op("heal", "", escalate) >> \o ops
    /\ UNCHANGED consecutive_fails

\* run() calls self.heal(reason): no heal is in progress
heal(backend_out, nginx_out, backend_ok, nginx_ok) ==
    /\ heal_stack = <<>>
    /\ heal_enter(<<>>, <<>>, FALSE, GentleOps(backend_out, nginx_out, backend_ok, nginx_ok))

\* the verification of the innermost call: health = self.check_api_health()
heal_verify(ok) ==
    /\ heal_stack # <<>> /\ Top.pc = "verify"
    /\ heal_trace' = Append(heal_trace, Op("probe", "", ok))
    /\ IF ok
       THEN /\ consecutive_fails' = 0
            /\ heal_stack' = Pop
       ELSE /\ consecutive_fails' = consecutive_fails + 1
            /\ heal_stack' = IF consecutive_fails + 1 >= ESCALATE_AFTER
                             THEN SetTop("escalate") ELSE Pop
    /\ UNCHANGED <<failure_count, healed_count>>

\* self.heal(reason="Cascade failure", escalate=True), called from inside heal
heal_escalate(killed, backend_ok, nginx_ok) ==
    /\ heal_stack # <<>> /\ Top.pc = "escalate"
    /\ heal_enter(SetTop("reset"), heal_trace, TRUE, NuclearOps(killed, backend_ok, nginx_ok))

\* the recursive call is one too many for the interpreter: RecursionError unwinds
\* every heal call in progress to the except clause of run()
heal_recursion_error(limit) ==
    /\ heal_stack # <<>> /\ Top.pc = "escalate"
    /\ Len(heal_stack) >= limit
    /\ heal_stack' = <<>>
    /\ heal_trace' = Append(heal_trace, Op("RecursionError", "", FALSE))
    /\ UNCHANGED <<consecutive_fails, failure_count, healed_count>>

\* self.consecutive_fails = 0, after the escalated call has returned
heal_reset ==
    /\ heal_stack # <<>> /\ Top.pc = "reset"
    /\ consecutive_fails' = 0
    /\ heal_stack' = Pop
    /\ UNCHANGED <<failure_count, healed_count, heal_trace>>

\* -------------------------------- specification of the self-healing engine
MaxHeals == 2     \* heal calls counted in failure_count before run() makes its last one
MaxDepth == 3     \* nested heal calls the interpreter allows (sys.getrecursionlimit() frames)

\* the engine between two heal calls of run(): up to ESCALATE_AFTER - 1 verifications
\* in a row have failed, each in a heal call that restarted nothing
InitHeal ==
    /\ InitBans
    /\ failed_logins = EmptyMap /\ burst_tracker = EmptyMap
    /\ cleanup_bans = EmptyMap
    /\ kill_switch_active = FALSE
    /\ score = NoScore
    /\ InitLimiter
    /\ response = NoResponse
    /\ InitDetector
    /\ InitLoops
    /\ InitLocks
    /\ InitRest
    /\ consecutive_fails \in 0 .. (ESCALATE_AFTER - 1)
    /\ failure_count = consecutive_fails
    /\ healed_count = 0
    /\ heal_stack = <<>>
    /\ heal_trace = <<>>

notHealer == <<banVars, cleanup_bans, scoreVars, limiterVars, response, detectorVars,
               loopVars, lockVars, readerVars, reportVars, raceVars>>

NextHeal ==
    \/ \E backend_out \in SystemctlOutputs, nginx_out \in SystemctlOutputs,
          backend_ok \in BOOLEAN, nginx_ok \in BOOLEAN :
          /\ heal(backend_out, nginx_out, backend_ok, nginx_ok)
          /\ failure_count' <= (ESCALATE_AFTER - 1) + MaxHeals
          /\ UNCHANGED notHealer
    \/ \E ok \in BOOLEAN : heal_verify(ok) /\ UNCHANGED notHealer
    \/ \E killed \in BOOLEAN, backend_ok \in BOOLEAN, nginx_ok \in BOOLEAN :
          /\ heal_escalate(killed, backend_ok, nginx_ok)
          /\ Len(heal_stack) < MaxDepth
          /\ UNCHANGED notHealer
    \/ heal_recursion_error(MaxDepth) /\ UNCHANGED notHealer
    \/ heal_reset /\ UNCHANGED notHealer

SpecHeal == InitHeal /\ [][NextHeal]_vars

\* ---------------------------------------------------------- background loops
\* the steps of one iteration of each loop, in order, after its time.sleep:
\*   SelfHealingEngine.run: API health, system resources, memory leak, disk,
\*     service checks, health report
\*   SlidingWindowRateLimiter._background_loop: sweep of _requests, attack-mode tuning
\*   ThreatDetectionEngine._cleanup_loop: sweep of the two maps, _save_bans
LoopSteps(loop) ==
    IF loop = "supervisor"
    THEN <<"health", "resources", "leak", "disk", "services", "report">>
    ELSE IF loop = "limiter" THEN <<"sweep", "tune">>
    ELSE <<"sweep", "save">>

\* the step is inside a try whose except clause catches Exception: the whole
\* iteration of run(), the psutil sample of _background_loop, the body of _save_bans
Guarded(loop, step) ==
    \/ loop = "supervisor"
    \/ loop = "limiter" /\ step = "tune"
    \/ loop = "cleanup" /\ step = "save"

\* the step after the i-th of an iteration; after the last the loop sleeps
StepAfter(loop, i) ==
    IF i < Len(LoopSteps(loop)) THEN LoopSteps(loop)[i + 1] ELSE "sleep"

\* time.sleep returns and the loop begins an iteration
loop_wake(loop) ==
    /\ loop_pc[loop] = "sleep"
    /\ loop_pc' = [loop_pc EXCEPT ![loop] = LoopSteps(loop)[1]]
    /\ loop_runs' = [loop_runs EXCEPT ![loop] = @ + 1]

\* the loop takes the step it stands at; raises: the step raises an exception.  A
\* guarded step that raises ends the try block (in each loop the next statement is
\* then the time.sleep); an unguarded one ends the thread's function
loop_step(loop, raises) ==
    /\ \E i \in DOMAIN LoopSteps(loop) :
          /\ loop_pc[loop] = LoopSteps(loop)[i]
          /\ loop_pc' = [loop_pc EXCEPT ![loop] =
                            IF ~raises THEN StepAfter(loop, i)
                            ELSE IF Guarded(loop, LoopSteps(loop)[i]) THEN "sleep"
                            ELSE "dead"]
    /\ UNCHANGED loop_runs

\* -------------------------------------- specification of the background loops
MaxRuns == 2      \* iterations of each loop in a behaviour

notLoops == <<banVars, cleanup_bans, scoreVars, limiterVars, response, detectorVars,
              healerVars, lockVars, readerVars, reportVars, raceVars>>

NextLoops ==
    \/ \E loop \in Loops :
          /\ loop_wake(loop)
          /\ loop_runs'[loop] <= MaxRuns
          /\ UNCHANGED notLoops
    \/ \E loop \in Loops, raises \in BOOLEAN :
          /\ loop_step(loop, raises)
          /\ UNCHANGED notLoops

SpecLoops == Init /\ [][NextLoops]_vars

\* ------------------------------------------------------------------ locks
\* the operations whose changes to the maps are made inside `with self._lock:`
\* (_ban_ip is only called from inside such a block)
LockedOps ==
    {"record_failed_login", "record_successful_login", "is_ip_banned", "unblock_ip",
     "check_ddos", "inspect_payload", "record_honeypot_hit", "cleanup_sweep",
     "check", "background_loop"}

UnderLockButBurst(op) == op \in LockedOps \ {"check_ddos"}

UnderLock(op) == op \in LockedOps

\* the component whose lock an operation takes
LockOf(op) == IF op \in {"check", "background_loop"} THEN "limiter" ELSE "engine"

\* with self._lock: the thread enters the block when the lock is free
lock_acquire(t, lock) ==
    /\ thread_pc[t] = "idle"
    /\ IF lock = "engine"
       THEN engine_lock = "free" /\ engine_lock' = t /\ UNCHANGED limiter_lock
       ELSE limiter_lock = "free" /\ limiter_lock' = t /\ UNCHANGED engine_lock
    /\ thread_pc' = [thread_pc EXCEPT ![t] = lock]
    /\ actor' = t

\* the end of the with block
lock_release(t) ==
    /\ thread_pc[t] \in {"leave engine", "leave limiter"}
    /\ IF thread_pc[t] = "leave engine"
       THEN engine_lock' = "free" /\ UNCHANGED limiter_lock
       ELSE limiter_lock' = "free" /\ UNCHANGED engine_lock
    /\ thread_pc' = [thread_pc EXCEPT ![t] = "idle"]
    /\ actor' = t

\* thread t runs the body of op: inside the with block of the operation's lock, or
\* with no lock at all when the operation takes none
Runs(t, op) ==
    /\ IF UnderLock(op)
       THEN /\ thread_pc[t] = LockOf(op)
            /\ thread_pc' = [thread_pc EXCEPT ![t] =
                                IF LockOf(op) = "engine" THEN "leave engine"
                                ELSE "leave limiter"]
       ELSE /\ thread_pc[t] = "idle"
            /\ UNCHANGED thread_pc
    /\ actor' = t
    /\ UNCHANGED <<engine_lock, limiter_lock>>

\* ------------------------------------------------ specification of the locks
notLocks == <<scoreVars, response, detectorVars, healerVars, loopVars, readerVars,
              reportVars, raceVars>>
limiterFrame == <<requests, blocked_count, total_blocked, attack_mode, circuit_open, info>>

MaxLockCalls == 2    \* recording calls of the request thread in a behaviour

\* the clock readings of the lock scenarios: the end of the cleanup thread's sleep
LockInstants == {Sec(CLEANUP_INTERVAL)}

NextLocks ==
    \/ /\ TickTo(LockInstants) /\ NoCall
       /\ UNCHANGED <<cleanup_bans, limiterFrame, notLocks, lockVars>>
    \/ /\ lock_acquire("request", "engine")
       /\ UNCHANGED <<banVars, cleanup_bans, limiterFrame, notLocks>>
    \/ /\ lock_acquire("request", "limiter")
       /\ UNCHANGED <<banVars, cleanup_bans, limiterFrame, notLocks>>
    \/ /\ cleanup_pc = "sleep" /\ now >= cleanup_wake
       /\ lock_acquire("background", "engine")
       /\ UNCHANGED <<banVars, cleanup_bans, limiterFrame, notLocks>>
    \/ /\ lock_acquire("background", "limiter")
       /\ UNCHANGED <<banVars, cleanup_bans, limiterFrame, notLocks>>
    \/ \E t \in Threads :
          /\ lock_release(t)
          /\ UNCHANGED <<banVars, cleanup_bans, limiterFrame, notLocks>>
    \/ \E ip \in IPs :
          /\ Runs("request", "record_failed_login")
          /\ record_failed_login(ip, TRUE) /\ NoteCall /\ ncalls' <= MaxLockCalls
          /\ UNCHANGED <<cleanup_bans, limiterFrame, notLocks>>
    \/ \E ip \in IPs :
          /\ Runs("request", "record_successful_login")
          /\ record_successful_login(ip) /\ NoCall
          /\ UNCHANGED <<cleanup_bans, limiterFrame, notLocks>>
    \/ \E ip \in IPs :
          /\ Runs("request", "is_ip_banned")
          /\ is_ip_banned(ip) /\ NoCall
          /\ UNCHANGED <<cleanup_bans, limiterFrame, notLocks>>
    \/ \E ip \in IPs :
          /\ Runs("request", "unblock_ip")
          /\ unblock_ip(ip, TRUE) /\ NoCall
          /\ UNCHANGED <<cleanup_bans, limiterFrame, notLocks>>
    \/ \E ip \in IPs :
          /\ Runs("request", "check_ddos")
          /\ check_ddos(ip, TRUE) /\ NoteCall /\ ncalls' <= MaxLockCalls
          /\ UNCHANGED <<cleanup_bans, limiterFrame, notLocks>>
    \/ \E ip \in IPs, path \in Paths :
          /\ Runs("request", "inspect_payload")
          /\ inspect_payload(ip, path, <<"--">>, <<>>, TRUE)
          /\ UNCHANGED request /\ NoteCall /\ ncalls' <= MaxLockCalls
          /\ UNCHANGED <<cleanup_bans, limiterFrame, notLocks>>
    \/ \E ip \in IPs, path \in Paths, ua \in UserAgents :
          /\ Runs("request", "record_honeypot_hit")
          /\ record_honeypot_hit(ip, path, ua, TRUE) /\ NoteCall /\ ncalls' <= MaxLockCalls
          /\ UNCHANGED <<cleanup_bans, limiterFrame, notLocks>>
    \/ \E ip \in IPs :
          /\ Runs("request", "check")
          /\ check(ip, "login") /\ NoteCall /\ ncalls' <= MaxLockCalls
          /\ UNCHANGED <<now, nticks, engineVars, cleanup_bans, notLocks>>
    \/ \E cpu \in CpuSamples :
          /\ Runs("background", "background_loop")
          /\ background_loop(cpu) /\ NoCall
          /\ UNCHANGED <<now, nticks, engineVars, cleanup_bans, notLocks>>
    \/ /\ Runs("background", "cleanup_sweep")
       /\ cleanup_sweep /\ NoCall
       /\ UNCHANGED <<cleanup_bans, limiterFrame, notLocks>>
    \/ /\ Runs("background", "cleanup_snapshot")
       /\ cleanup_snapshot
       /\ UNCHANGED <<limiterFrame, notLocks>>
    \/ /\ Runs("background", "cleanup_write")
       /\ cleanup_write(TRUE)
       /\ UNCHANGED <<limiterFrame, notLocks>>

\* both engines as constructed, with no ban state on file
InitSpecLocks == Init /\ failed_logins = EmptyMap /\ burst_tracker = EmptyMap

SpecLocks == InitSpecLocks /\ [][NextLocks]_vars

\* ------------------------------ the anomaly history and its concurrent reader
\* AnomalyDetector takes no lock.  analyze is taken here in the steps of its
\* "Store anomalies" block, and get_anomaly_history may run between any two.
At(at, k) == [at |-> at, k |-> k]

\* list(reversed(self.anomalies))
Reversed(list) == [i \in 1 .. Len(list) |-> list[Len(list) + 1 - i]]

\* self.anomalies[-self.max_anomalies:]
LastN(list, n) == IF Len(list) > n THEN SubSeq(list, Len(list) - n + 1, Len(list)) ELSE list

\* analyze, from its first line to the end of the per-metric blocks
analyze_detect(cpu, memory, disk) ==
    LET ch == DequeAppend(cpu_history, cpu, WINDOW_SIZE)
        mh == DequeAppend(memory_history, memory, WINDOW_SIZE)
        dh == DequeAppend(disk_history, disk, WINDOW_SIZE)
        cpu_streak  == StreakAfter(anomaly_streaks.cpu,
                                   ZScoreAbove(ch, cpu, Threshold("cpu")))
        mem_streak  == StreakAfter(anomaly_streaks.memory,
                                   ZScoreAbove(mh, memory, Threshold("memory")))
        disk_streak == StreakAfter(anomaly_streaks.disk,
                                   ZScoreAbove(dh, disk, Threshold("disk")))
        found ==
               (IF Emits(cpu_streak)
                THEN << [metric |-> "CPU", value |-> cpu] >> ELSE <<>>)
            \o (IF Emits(mem_streak)
                THEN << [metric |-> "Memory", value |-> memory] >> ELSE <<>>)
            \o (IF Emits(disk_streak)
                THEN << [metric |-> "Disk", value |-> disk] >> ELSE <<>>)
    IN  /\ analyze_pc = At("idle", 0)
        /\ total_checks' = total_checks + 1
        /\ cpu_history' = ch
        /\ memory_history' = mh
        /\ disk_history' = dh
        /\ IF StillLearning(Len(ch))
           THEN /\ analysis' = Analysis("learning", Len(ch), <<>>)
                /\ UNCHANGED <<anomaly_streaks, analyze_pc, found_anomalies>>
           ELSE /\ anomaly_streaks' = [cpu |-> cpu_streak, memory |-> mem_streak,
                                       disk |-> disk_streak]
                /\ found_anomalies' = found
                /\ analyze_pc' = At("store", 1)
                /\ UNCHANGED analysis
        /\ UNCHANGED <<anomalies, total_anomalies_detected, history>>

\* one iteration of: for a in anomalies_found: self.anomalies.append(a); ... += 1
analyze_store ==
    /\ analyze_pc.at = "store"
    /\ analyze_pc.k <= Len(found_anomalies)
    /\ anomalies' = Append(anomalies, found_anomalies[analyze_pc.k])
    /\ total_anomalies_detected' = total_anomalies_detected + 1
    /\ analyze_pc' = At("store", analyze_pc.k + 1)
    /\ UNCHANGED <<cpu_history, memory_history, disk_history, anomaly_streaks,
                   total_checks, analysis, found_anomalies, history>>

\* if len(self.anomalies) > self.max_anomalies: self.anomalies = self.anomalies[-200:]
\* and the return
analyze_trim ==
    /\ analyze_pc.at = "store"
    /\ analyze_pc.k > Len(found_anomalies)
    /\ anomalies' = LastN(anomalies, MAX_ANOMALIES)
    /\ analysis' = Analysis("monitoring", Len(cpu_history), found_anomalies)
    /\ analyze_pc' = At("idle", 0)
    /\ found_anomalies' = <<>>
    /\ UNCHANGED <<cpu_history, memory_history, disk_history, anomaly_streaks,
                   total_checks, total_anomalies_detected, history>>

\* AnomalyDetector.get_anomaly_history
get_anomaly_history ==
    /\ history' = Reversed(anomalies)
    /\ UNCHANGED <<detectorVars, analyze_pc, found_anomalies>>

MaxHistoryCalls == 3    \* calls of analyze in a behaviour
HistorySlack    == 1    \* events missing to max_anomalies in the initial history

\* the readings fed to the detector: a steady value and a spike
HistoryReadings == {50, 51}

\* the analyze calls made before the behaviour begins
ChecksBefore == MAX_ANOMALIES + WINDOW_SIZE

\* a detector that has recorded MAX_ANOMALIES - HistorySlack events and has since
\* taken WINDOW_SIZE steady readings, which fill the three windows
InitHistory ==
    /\ InitBans
    /\ failed_logins = EmptyMap /\ burst_tracker = EmptyMap
    /\ cleanup_bans = EmptyMap
    /\ kill_switch_active = FALSE
    /\ score = NoScore
    /\ InitHealer /\ InitLoops /\ InitLocks /\ InitReport /\ InitRace
    /\ InitLimiter
    /\ response = NoResponse
    /\ cpu_history = Steady(WINDOW_SIZE)
    /\ memory_history = cpu_history
    /\ disk_history = cpu_history
    /\ anomaly_streaks = [cpu |-> 0, memory |-> 0, disk |-> 0]
    /\ anomalies = [i \in 1 .. (MAX_ANOMALIES - HistorySlack) |->
                        [metric |-> "CPU", value |-> 51]]
    /\ total_checks = ChecksBefore
    /\ total_anomalies_detected = MAX_ANOMALIES - HistorySlack
    /\ analysis = Analysis("monitoring", WINDOW_SIZE, <<>>)
    /\ analyze_pc = At("idle", 0)
    /\ found_anomalies = <<>>
    /\ history = <<>>

notDetector == <<banVars, cleanup_bans, scoreVars, limiterVars, response,
                 healerVars, loopVars, lockVars, reportVars, raceVars>>

NextHistory ==
    \/ \E cpu \in HistoryReadings, memory \in HistoryReadings, disk \in HistoryReadings :
          /\ analyze_detect(cpu, memory, disk)
          /\ total_checks' <= ChecksBefore + MaxHistoryCalls
          /\ UNCHANGED notDetector
    \/ analyze_store /\ UNCHANGED notDetector
    \/ analyze_trim /\ UNCHANGED notDetector
    \/ get_anomaly_history /\ UNCHANGED notDetector

SpecHistory == InitHistory /\ [][NextHistory]_vars

\* ------------------------------------------- one iteration of run(), in steps
\* loop_pc["supervisor"] is the statement run() stands at; a call of heal made by
\* run() is in progress while heal_stack is not empty, and run() goes on when
\* the call has returned.
RunAt(step) == loop_pc["supervisor"] = step /\ heal_stack = <<>>
RunTo(step) == loop_pc' = [loop_pc EXCEPT !["supervisor"] = step]

\* time.sleep(CHECK_INTERVAL) returns
run_wake ==
    /\ RunAt("sleep")
    /\ RunTo("health")
    /\ loop_runs' = [loop_runs EXCEPT !["supervisor"] = @ + 1]
    /\ UNCHANGED <<healerVars, reportVars>>

\* 1. health = self.check_api_health(); if not health["ok"]: self.heal(...)
run_health(ok, backend_out, nginx_out, backend_ok, nginx_ok) ==
    /\ RunAt("health")
    /\ health' = ok
    /\ last_probe' = ok
    /\ IF ok THEN UNCHANGED healerVars
       ELSE heal(backend_out, nginx_out, backend_ok, nginx_ok)
    /\ RunTo("resources")
    /\ UNCHANGED <<loop_runs, report>>

\* 2. to 4.: the resource sample, the leak test and the disk clean-up change none
\* of the counters of the report that the model keeps
run_resources ==
    /\ RunAt("resources")
    /\ RunTo("services")
    /\ UNCHANGED <<loop_runs, healerVars, reportVars>>

\* 5. if not self.is_service_running(service): self.heal(...), for the backend
\* and then for nginx
run_service(out, backend_out, nginx_out, backend_ok, nginx_ok) ==
    /\ RunAt("services") \/ RunAt("nginx")
    /\ IF is_service_running(out) THEN UNCHANGED healerVars
       ELSE heal(backend_out, nginx_out, backend_ok, nginx_ok)
    /\ RunTo(IF loop_pc["supervisor"] = "services" THEN "nginx" ELSE "report")
    /\ UNCHANGED <<loop_runs, reportVars>>

\* 6. if now - self.last_report_time >= HEALTH_REPORT_INTERVAL:
\*        self.write_health_report(res, health)
\* due: the interval has passed; io_ok: the file could be written
write_health_report(io_ok) ==
    report' = IF io_ok
              THEN Report(health, failure_count, healed_count, consecutive_fails)
              ELSE report

run_report(due, io_ok) ==
    /\ RunAt("report")
    /\ IF due THEN write_health_report(io_ok) ELSE UNCHANGED report
    /\ RunTo("sleep")
    /\ UNCHANGED <<loop_runs, healerVars, health, last_probe>>

\* the steps of a heal call that run() has made
run_heal_verify(ok) ==
    /\ heal_verify(ok)
    /\ last_probe' = ok
    /\ UNCHANGED <<loopVars, health, report>>

run_heal_escalate(killed, backend_ok, nginx_ok) ==
    /\ heal_escalate(killed, backend_ok, nginx_ok)
    /\ UNCHANGED <<loopVars, reportVars>>

run_heal_reset ==
    /\ heal_reset
    /\ UNCHANGED <<loopVars, reportVars>>

\* except Exception as e: log.error(...): the iteration ends without a report
run_recursion_error(limit) ==
    /\ heal_recursion_error(limit)
    /\ RunTo("sleep")
    /\ UNCHANGED <<loop_runs, reportVars>>

MaxReportRuns  == 2    \* iterations of run() in a behaviour
MaxReportHeals == 3    \* heal calls counted in failure_count before run() makes its last one

notRun == <<banVars, cleanup_bans, scoreVars, limiterVars, response, detectorVars,
            lockVars, readerVars, raceVars>>

\* the restarts succeed or fail together, and systemctl prints "active" or "failed"
RunOutputs == {<<"active">>, <<"failed">>}

NextRun ==
    \/ /\ run_wake
       /\ loop_runs'["supervisor"] <= MaxReportRuns
       /\ UNCHANGED notRun
    \/ \E ok \in BOOLEAN, out \in RunOutputs, restarted \in BOOLEAN :
          /\ run_health(ok, out, out, restarted, restarted)
          /\ failure_count' <= (ESCALATE_AFTER - 1) + MaxReportHeals
          /\ UNCHANGED notRun
    \/ run_resources /\ UNCHANGED notRun
    \/ \E out \in RunOutputs, restarted \in BOOLEAN :
          /\ run_service(out, out, out, restarted, restarted)
          /\ failure_count' <= (ESCALATE_AFTER - 1) + MaxReportHeals
          /\ UNCHANGED notRun
    \/ \E due \in BOOLEAN, io_ok \in BOOLEAN : run_report(due, io_ok) /\ UNCHANGED notRun
    \/ \E ok \in BOOLEAN : run_heal_verify(ok) /\ UNCHANGED notRun
    \/ \E restarted \in BOOLEAN :
          /\ run_heal_escalate(restarted, restarted, restarted)
          /\ Len(heal_stack) < MaxDepth
          /\ UNCHANGED notRun
    \/ run_heal_reset /\ UNCHANGED notRun
    \/ run_recursion_error(MaxDepth) /\ UNCHANGED notRun

\* the supervisor between two iterations, as in InitHeal, with no report written
InitRun == InitHeal

SpecRun == InitRun /\ [][NextRun]_vars

\* --------------------------------------------- concurrent calls of check
\* check reads _circuit_open, _attack_mode, _blocked_count and the clock before
\* it takes the lock; what it does inside `with self._lock:` is one step.

\* check, from its first line to `key = (ip, category)`
check_read(c, ip, category) ==
    /\ calls[c].pc = "idle"
    /\ IF circuit_open /\ ~CircuitExempt(category)
       THEN /\ info' = Info(FALSE, category, 0, 0, CIRCUIT_RETRY_AFTER, CIRCUIT_WINDOW,
                            "circuit_breaker")
            /\ UNCHANGED calls
       ELSE LET config == IF category \in DOMAIN RATE_LIMITS
                          THEN RATE_LIMITS[category] ELSE RATE_LIMITS["default"]
                tight  == IF attack_mode THEN AttackLimit(config.max_requests)
                          ELSE config.max_requests
            IN  /\ calls' = [calls EXCEPT ![c] =
                                Call("lock", ip, category, now,
                                     OffenseLimit(tight, Offenses(ip)))]
                /\ UNCHANGED info
    /\ UNCHANGED <<requests, blocked_count, total_blocked, attack_mode, circuit_open,
                   admitted>>

\* check, inside `with self._lock:`, with the clock reading and the limit it
\* took before
check_locked(c) ==
    LET call    == calls[c]
        config  == IF call.category \in DOMAIN RATE_LIMITS
                   THEN RATE_LIMITS[call.category] ELSE RATE_LIMITS["default"]
        window  == config.window_seconds
        key     == <<call.ip, call.category>>
        old     == IF key \in DOMAIN requests THEN requests[key] ELSE <<>>
        kept    == SelectSeq(old, LAMBDA ts : InWindow(ts, call.now, Sec(window)))
        current == Len(kept)
        oldest  == IF kept # <<>> THEN kept[1] ELSE call.now
        before  == IF key \in DOMAIN admitted THEN admitted[key] ELSE <<>>
    IN  /\ call.pc = "lock"
        /\ IF current >= call.max_req
           THEN /\ requests' = Put(requests, key, kept)
                /\ blocked_count' = Put(blocked_count, call.ip, Offenses(call.ip) + 1)
                /\ total_blocked' = total_blocked + 1
                /\ info' = Info(FALSE, call.category, call.max_req, 0,
                                ToInt(Sec(window) - (call.now - oldest)) + 1, window, "")
                /\ UNCHANGED admitted
           ELSE /\ requests' = Put(requests, key, Append(kept, call.now))
                /\ info' = Info(TRUE, call.category, call.max_req,
                                call.max_req - current - 1, None, window, "")
                /\ admitted' = Put(admitted, key, Append(before, call.now))
                /\ UNCHANGED <<blocked_count, total_blocked>>
        /\ calls' = [calls EXCEPT ![c] = NoCheck]
        /\ UNCHANGED <<attack_mode, circuit_open>>

MaxRaceChecks == 3    \* calls of check begun in a behaviour
MaxRaceTicks  == 2    \* clock advances in a behaviour
RaceSlack     == 1    \* requests missing to the base limit in the initial window

\* the category with the smallest limit, and the clock around the end of the
\* window that starts at 0 and at the age at which the background loop drops entries
RaceCategories == {"forgot_password"}
RaceInstants   == {Sec(CIRCUIT_WINDOW) - 1, Sec(CIRCUIT_WINDOW), Sec(STALE_AFTER)}

\* the rate limiter after one client made all but RaceSlack of the requests the
\* category allows, at time 0
InitSpecRace ==
    /\ InitBans
    /\ failed_logins = EmptyMap /\ burst_tracker = EmptyMap
    /\ cleanup_bans = EmptyMap
    /\ kill_switch_active = FALSE
    /\ score = NoScore
    /\ \E ip \in IPs, category \in RaceCategories :
          /\ requests = [key \in {<<ip, category>>} |->
                            [i \in 1 .. (BaseLimit(category) - RaceSlack) |-> 0]]
          /\ admitted = requests
    /\ blocked_count = EmptyMap
    /\ total_blocked = 0
    /\ attack_mode = FALSE
    /\ circuit_open = FALSE
    /\ info = NoInfo
    /\ response = NoResponse
    /\ InitDetector
    /\ InitHealer /\ InitLoops /\ InitLocks /\ InitReader /\ InitReport
    /\ calls = [c \in Callers |-> NoCheck]

notRace == <<cleanup_bans, scoreVars, response, detectorVars, healerVars, loopVars,
             lockVars, readerVars, reportVars>>

NextRace ==
    \/ /\ TickTo(RaceInstants) /\ NoCall /\ nticks' <= MaxRaceTicks
       /\ UNCHANGED <<limiterVars, raceVars, notRace>>
    \/ \E c \in Callers, ip \in IPs, category \in RaceCategories :
           /\ check_read(c, ip, category)
           /\ NoteCall /\ ncalls' <= MaxRaceChecks
           /\ UNCHANGED <<now, nticks, engineVars, notRace>>
    \/ \E c \in Callers :
           /\ check_locked(c) /\ NoCall
           /\ UNCHANGED <<now, nticks, engineVars, notRace>>
    \/ \E active \in BOOLEAN :
           /\ set_attack_mode(active) /\ NoCall
           /\ UNCHANGED <<now, nticks, engineVars, raceVars, notRace>>
    \/ \E open_ \in BOOLEAN :
           /\ set_circuit_breaker(open_) /\ NoCall
           /\ UNCHANGED <<now, nticks, engineVars, raceVars, notRace>>
    \/ \E cpu \in CpuSamples :
           /\ background_loop(cpu) /\ NoCall
           /\ UNCHANGED <<now, nticks, engineVars, raceVars, notRace>>

SpecRace == InitSpecRace /\ [][NextRace]_vars

\* ------------------------------------- specification of the login failures
MaxLoginCalls == 3    \* calls of record_failed_login in a behaviour

\* the login handler's calls on the engine, those of the middleware's ban check,
\* and the clock
NextLogins ==
    \/ Tick /\ NoCall /\ nticks' <= MaxTicks
       /\ UNCHANGED <<cleanup_bans, scoreVars, notEngine>>
    \/ \E ip \in IPs :
           /\ record_failed_login(ip, TRUE)
           /\ NoteCall /\ ncalls' <= MaxLoginCalls
           /\ UNCHANGED <<cleanup_bans, scoreVars, notEngine>>
    \/ \E ip \in IPs :
           /\ record_successful_login(ip) /\ NoCall
           /\ UNCHANGED <<cleanup_bans, scoreVars, notEngine>>
    \/ \E ip \in IPs :
           /\ is_ip_banned(ip) /\ NoCall
           /\ UNCHANGED <<cleanup_bans, scoreVars, notEngine>>

SpecLogins == Init /\ [][NextLogins]_vars

\* ------------------------------------------ the kill switch and attack mode
\* POST /api/kill-switch: threat_engine.activate_kill_switch() and
\* rate_limiter.set_attack_mode(True)
trigger_kill_switch ==
    /\ activate_kill_switch
    /\ set_attack_mode(TRUE)

\* POST /api/kill-switch/deactivate: threat_engine.deactivate_kill_switch() and
\* rate_limiter.set_attack_mode(False)
kill_switch_deactivate ==
    /\ deactivate_kill_switch
    /\ set_attack_mode(FALSE)

MaxKillChecks == 2    \* calls of check in a behaviour

notKill == <<now, nticks, engineVars, cleanup_bans, response, detectorVars, otherVars>>

NextKill ==
    \/ trigger_kill_switch /\ NoCall /\ UNCHANGED notKill
    \/ kill_switch_deactivate /\ NoCall /\ UNCHANGED notKill
    \/ \E cpu \in CpuSamples :
           /\ background_loop(cpu) /\ NoCall
           /\ UNCHANGED <<scoreVars, notKill>>
    \/ \E ip \in IPs, category \in Categories :
           /\ info = NoInfo \/ info.category = category
           /\ check(ip, category)
           /\ NoteCall /\ ncalls' <= MaxKillChecks
           /\ UNCHANGED <<scoreVars, notKill>>

SpecKill == Init /\ [][NextKill]_vars

\* ------------------------------------ the client address behind the proxy
TRUSTED_PROXIES == {"127.0.0.1", "::1"}

\* a connection: the peer address of the TCP connection (request.client.host)
\* and the X-Forwarded-For header as its comma-separated entries, <<>> when the
\* header is absent or empty
Connection(host, xff) == [host |-> host, xff |-> xff]

\* get_client_ip(request): the leftmost X-Forwarded-For entry when the peer is a
\* trusted proxy and the header is set, the peer address otherwise
get_client_ip(conn) ==
    IF conn.xff # <<>> /\ conn.host \in TRUSTED_PROXIES
    THEN conn.xff[1]
    ELSE conn.host

\* the login handler's client_ip
login_client_ip(conn) == conn.host

\* the ban check of security_middleware rejects a request made from that address
BanCheckRejects(ip) == ip \notin WHITELISTED_IPS /\ IsBannedResult(ip).ok

\* POST /api/auth/login with a wrong password, on a request the middleware's ban
\* check has let through
login(conn) ==
    /\ ~BanCheckRejects(get_client_ip(conn))
    /\ record_failed_login(login_client_ip(conn), TRUE)

MaxProxyLogins == 5    \* requests, failed logins among them, in a behaviour

\* one client, connecting directly, directly with a header of its own making,
\* and through the local reverse proxy
Connections ==
    UNION {{Connection(ip, <<>>), Connection(ip, <<"198.51.100.7">>),
            Connection("127.0.0.1", <<ip>>),
            Connection("127.0.0.1", <<ip, "127.0.0.1">>)} : ip \in IPs}

NextProxy ==
    \/ Tick /\ NoCall /\ nticks' <= MaxTicks
       /\ UNCHANGED <<cleanup_bans, scoreVars, notEngine>>
    \/ \E conn \in Connections :
           /\ login(conn)
           /\ NoteCall /\ ncalls' <= MaxProxyLogins
           /\ UNCHANGED <<cleanup_bans, scoreVars, notEngine>>
    \/ \E conn \in Connections :
           /\ security_middleware(get_client_ip(conn), <<"/health">>, <<>>)
           /\ NoteCall /\ ncalls' <= MaxProxyLogins
           /\ UNCHANGED <<now, nticks, honeypot_hits, cleanup_pc, cleanup_wake, ret,
                          request, cleanup_bans, scoreVars, detectorVars, otherVars>>

\* the application after start-up, no client known to the engine yet
InitProxy ==
    /\ now = 0
    /\ failed_logins = EmptyMap
    /\ burst_tracker = EmptyMap
    /\ bans_total = [ip \in IPs \cup TRUSTED_PROXIES |-> 0]
    /\ prev_until = [ip \in IPs \cup TRUSTED_PROXIES |-> None]
    /\ ban_file = EmptyMap
    /\ honeypot_hits = <<>>
    /\ payload_hits = <<>>
    /\ cleanup_pc = "sleep"
    /\ cleanup_wake = Sec(CLEANUP_INTERVAL)
    /\ ret = NoResult
    /\ request = NoRequest
    /\ nbans = 0
    /\ ncalls = 0
    /\ nticks = 0
    /\ cleanup_bans = EmptyMap
    /\ kill_switch_active = FALSE
    /\ score = NoScore
    /\ InitLimiter
    /\ response = NoResponse
    /\ InitDetector
    /\ InitOther

SpecProxy == InitProxy /\ [][NextProxy]_vars

\* ------------------------------------------- the sweep and the decisions
MaxSweepChecks == 2    \* calls of check in a behaviour

\* the rate limiter with its background loop: requests, the clock, the circuit
\* breaker and the loop's iterations
NextSweep ==
    \/ /\ TickTo(LimiterInstants) /\ NoCall /\ nticks' <= MaxTicks
       /\ UNCHANGED <<limiterVars, notLimiter>>
    \/ \E ip \in IPs, category \in Categories :
           /\ requests = EmptyMap \/ <<ip, category>> \in DOMAIN requests
           /\ info = NoInfo \/ info.category = category
           /\ check(ip, category)
           /\ NoteCall /\ ncalls' <= MaxSweepChecks
           /\ UNCHANGED <<now, nticks, engineVars, notLimiter>>
    \/ \E open_ \in BOOLEAN :
           /\ set_circuit_breaker(open_) /\ NoCall
           /\ UNCHANGED <<now, nticks, engineVars, notLimiter>>
    \/ \E cpu \in CpuSamples :
           /\ background_loop(cpu) /\ NoCall
           /\ UNCHANGED <<now, nticks, engineVars, notLimiter>>

SpecSweep == InitSpecLimiter /\ [][NextSweep]_vars

\* what check(ip, category) returns at time t when the request map is reqs, the
\* attack mode, the circuit breaker and the offense counts being those of the state
CheckInfo(reqs, ip, category, t) ==
    IF circuit_open /\ ~CircuitExempt(category)
    THEN Info(FALSE, category, 0, 0, CIRCUIT_RETRY_AFTER, CIRCUIT_WINDOW, "circuit_breaker")
    ELSE LET config   == IF category \in DOMAIN RATE_LIMITS
                         THEN RATE_LIMITS[category] ELSE RATE_LIMITS["default"]
             window   == config.window_seconds
             tight    == IF attack_mode THEN AttackLimit(config.max_requests)
                         ELSE config.max_requests
             max_req  == OffenseLimit(tight, Offenses(ip))
             key      == <<ip, category>>
             old      == IF key \in DOMAIN reqs THEN reqs[key] ELSE <<>>
             kept     == SelectSeq(old, LAMBDA ts : InWindow(ts, t, Sec(window)))
             current  == Len(kept)
             oldest   == IF kept # <<>> THEN kept[1] ELSE t
         IN  IF current >= max_req
             THEN Info(FALSE, category, max_req, 0,
                       ToInt(Sec(window) - (t - oldest)) + 1, window, "")
             ELSE Info(TRUE, category, max_req, max_req - current - 1, None, window, "")

\* ------------------------------------------------ two clients, one engine
MaxIsolationCalls == 1    \* recording calls in a behaviour

\* a second client next to the first
IsolationIPs == IPs \cup {"10.0.0.6"}

\* the engine knowing none, one or both of the clients, each known one either
\* just short of the failed-login limit or banned at time 0 for the first time,
\* and just short of the burst limit
InitIsolation ==
    /\ now = 0
    /\ \E known \in SUBSET IsolationIPs : \E banned \in SUBSET known :
          /\ failed_logins = [ip \in known |->
                                 IF ip \in banned THEN FirstBan ELSE LoginPrefill]
          /\ burst_tracker = [ip \in known |-> BurstPrefill]
          /\ bans_total = [ip \in IsolationIPs |-> IF ip \in banned THEN 1 ELSE 0]
          /\ prev_until = [ip \in IsolationIPs |->
                              IF ip \in banned THEN FirstBan.ban_until ELSE None]
    /\ ban_file = Snapshot(failed_logins, 0)
    /\ honeypot_hits = <<>>
    /\ payload_hits = <<>>
    /\ cleanup_pc = "sleep"
    /\ cleanup_wake = Sec(CLEANUP_INTERVAL)
    /\ ret = NoResult
    /\ request = NoRequest
    /\ nbans = 0
    /\ ncalls = 0
    /\ nticks = 0
    /\ cleanup_bans = EmptyMap
    /\ kill_switch_active = FALSE
    /\ score = NoScore
    /\ InitLimiter
    /\ response = NoResponse
    /\ InitDetector
    /\ InitOther

\* the clock readings of these behaviours: the start and the end of the first ban
IsolationInstants == {0, Sec(BAN_DURATIONS[1])}

\* the seven operations a caller invokes for one IP
NextIsolation ==
    \/ TickTo(IsolationInstants) /\ NoCall /\ nticks' <= MaxTicks
       /\ UNCHANGED <<cleanup_bans, scoreVars, notEngine>>
    \/ \E ip \in IsolationIPs :
           /\ record_failed_login(ip, TRUE)
           /\ NoteCall /\ ncalls' <= MaxIsolationCalls
           /\ UNCHANGED <<cleanup_bans, scoreVars, notEngine>>
    \/ \E ip \in IsolationIPs :
           /\ record_successful_login(ip) /\ NoCall
           /\ UNCHANGED <<cleanup_bans, scoreVars, notEngine>>
    \/ \E ip \in IsolationIPs :
           /\ is_ip_banned(ip) /\ NoCall
           /\ UNCHANGED <<cleanup_bans, scoreVars, notEngine>>
    \/ \E ip \in IsolationIPs :
           /\ unblock_ip(ip, TRUE) /\ NoCall
           /\ UNCHANGED <<cleanup_bans, scoreVars, notEngine>>
    \/ \E ip \in IsolationIPs :
           /\ check_ddos(ip, TRUE)
           /\ NoteCall /\ ncalls' <= MaxIsolationCalls
           /\ UNCHANGED <<cleanup_bans, scoreVars, notEngine>>
    \/ \E ip \in IsolationIPs, path \in Paths, query \in Queries :
           /\ inspect_payload(ip, path, query, <<>>, TRUE)
           /\ UNCHANGED request
           /\ NoteCall /\ ncalls' <= MaxIsolationCalls
           /\ UNCHANGED <<cleanup_bans, scoreVars, notEngine>>
    \/ \E ip \in IsolationIPs, path \in Paths, ua \in UserAgents :
           /\ record_honeypot_hit(ip, path, ua, TRUE)
           /\ NoteCall /\ ncalls' <= MaxIsolationCalls
           /\ UNCHANGED <<cleanup_bans, scoreVars, notEngine>>

SpecIsolation == InitIsolation /\ [][NextIsolation]_vars

\* ===================================================================== claims
\* what the properties read off a step
OffenseBefore(ip) ==
    IF ip \in DOMAIN failed_logins THEN failed_logins[ip].offense_count ELSE 0
AttemptsBefore(ip) ==
    IF ip \in DOMAIN failed_logins THEN failed_logins[ip].timestamps ELSE <<>>
\* the step is a banning call made for ip, at any of the four call sites
BanSite(ip) ==
    \/ \E io \in BOOLEAN : record_failed_login(ip, io) /\ ret'.ok
    \/ \E io \in BOOLEAN : check_ddos(ip, io) /\ ret'.ok
    \/ /\ payload_hits' # payload_hits
       /\ payload_hits'[Len(payload_hits')].ip = ip
    \/ /\ honeypot_hits' # honeypot_hits
       /\ honeypot_hits'[Len(honeypot_hits')].ip = ip
\* the duration of the ban issued at the given offense_count, in seconds
LadderSeconds(oc) ==
    CASE oc = 0 -> 3600 [] oc = 1 -> 21600 [] oc = 2 -> 86400 [] OTHER -> 604800

\* C1: for an IP that was never banned, the call of record_failed_login that is the
\* 5th within 300 s returns true, sets ban_until 3600 s after the call (so that
\* is_ip_banned is true with 3600 s remaining, minus the time elapsed since), and
\* leaves offense_count 1; an earlier call of the run returns false and leaves
\* the IP unbanned.
C1_FifthFailedLoginBans ==
    [][\A ip \in IPs : \A io \in BOOLEAN :
          (record_failed_login(ip, io) /\ bans_total[ip] = 0) =>
             LET before   == AttemptsBefore(ip)
                 inWindow == Cardinality({i \in DOMAIN before :
                                             now - before[i] <= 300 * TicksPerSec})
             IN  IF inWindow + 1 = 5
                 THEN /\ ret'.ok = TRUE
                      /\ failed_logins'[ip].ban_until = now + 3600 * TicksPerSec
                      /\ failed_logins'[ip].offense_count = 1
                      /\ IsBannedResult(ip)' = Result(TRUE, 3600, NoAttack)
                 ELSE /\ inWindow + 1 < 5
                      /\ ret'.ok = FALSE
                      /\ failed_logins'[ip].ban_until = None
                      /\ IsBannedResult(ip)'.ok = FALSE]_vars

\* the 5th failed login of a run that took time has just banned the IP
C1_Witness ==
    \E ip \in DOMAIN failed_logins :
        /\ ret = Result(TRUE, None, NoAttack)
        /\ bans_total[ip] = 1
        /\ Len(failed_logins[ip].timestamps) = 5
        /\ failed_logins[ip].timestamps[1] < failed_logins[ip].timestamps[5]
        /\ failed_logins[ip].timestamps[5] = now
        /\ failed_logins[ip].offense_count = 1
        /\ failed_logins[ip].ban_until = now + 3600 * TicksPerSec

\* C2: the second ban of an IP, issued after its first ban has expired, lasts
\* 21600 s, whatever ran in between.
C2_SecondBanUsesNextDuration ==
    [][\A ip \in IPs :
          (/\ BanSite(ip)
           /\ bans_total[ip] = 1
           /\ prev_until[ip] # None /\ prev_until[ip] <= now) =>
             failed_logins'[ip].ban_until = now + 21600 * TicksPerSec]_vars

\* C3: every ban, at any of the four call sites, lasts BAN_DURATIONS[min(offense_count,
\* 3)] with the offense_count before the ban (1 h, 6 h, 24 h, then 7 d for ever),
\* sets ban_until = now + duration and adds exactly 1 to offense_count.
C3_EscalationRule ==
    [][\A ip \in IPs :
          BanSite(ip) =>
             /\ failed_logins'[ip].ban_until =
                    now + LadderSeconds(OffenseBefore(ip)) * TicksPerSec
             /\ failed_logins'[ip].offense_count = OffenseBefore(ip) + 1]_vars

\* an IP banned twice with the capped duration
C3_Witness ==
    \E ip \in DOMAIN failed_logins :
        /\ failed_logins[ip].offense_count = 5
        /\ nbans = 2
        /\ failed_logins[ip].ban_until = now + 604800 * TicksPerSec

\* C4 as claimed: each value ban_until is set to is strictly greater than the
\* values it was set to before.
C4_StrictlyIncreasing ==
    [][\A ip \in IPs :
          (BanSite(ip) /\ prev_until[ip] # None) =>
             failed_logins'[ip].ban_until > prev_until[ip]]_vars

\* C4 as amended: each value ban_until is set to is at least the value it was set
\* to before, and equal to it only when the earlier ban was a 7 d ban issued at
\* the same clock reading.
C4_NeverDecreasing ==
    [][\A ip \in IPs :
          (BanSite(ip) /\ prev_until[ip] # None) =>
             /\ failed_logins'[ip].ban_until >= prev_until[ip]
             /\ failed_logins'[ip].ban_until = prev_until[ip] =>
                    /\ prev_until[ip] = now + 604800 * TicksPerSec
                    /\ OffenseBefore(ip) >= 4]_vars

\* an IP banned again while its first ban is active, for longer
C4_Witness ==
    \E ip \in DOMAIN failed_logins :
        /\ bans_total[ip] = 2 /\ nbans = 2
        /\ failed_logins[ip].offense_count = 2
        /\ failed_logins[ip].ban_until = prev_until[ip]
        /\ failed_logins[ip].ban_until = now + 21600 * TicksPerSec
        /\ now < 3600 * TicksPerSec

\* C5: a banned IP stays banned over every step that is not unblock_ip for it,
\* as long as the clock has not reached its ban_until; record_successful_login
\* clears the timestamps and leaves ban_until and offense_count as they were.
C5_BanOutlivesAllButExpiryAndUnban ==
    [][\A ip \in IPs :
          /\ (/\ IsBannedResult(ip).ok
              /\ ~ \E io \in BOOLEAN : unblock_ip(ip, io)
              /\ now' < failed_logins[ip].ban_until)
                 => /\ IsBannedResult(ip)'.ok
                    /\ failed_logins'[ip].ban_until >= failed_logins[ip].ban_until
          /\ record_successful_login(ip) =>
                IF ip \in DOMAIN failed_logins
                THEN /\ failed_logins'[ip].timestamps = <<>>
                     /\ failed_logins'[ip].ban_until = failed_logins[ip].ban_until
                     /\ failed_logins'[ip].offense_count = failed_logins[ip].offense_count
                ELSE failed_logins' = failed_logins]_vars

\* an IP banned by a failed-login run, still banned after a successful login
C5_Witness ==
    \E ip \in DOMAIN failed_logins :
        /\ IsBannedResult(ip).ok
        /\ failed_logins[ip].timestamps = <<>>
        /\ ret = NoResult
        /\ bans_total[ip] = 1 /\ nbans = 1
        /\ honeypot_hits = <<>> /\ payload_hits = <<>> /\ burst_tracker = EmptyMap

\* C6: unblock_ip on an IP with a record clears ban_until and the timestamps and
\* returns true, and is_ip_banned then returns (false, None); on an unknown IP it
\* returns false, creates no record and changes nothing.
C6_Unban ==
    [][\A ip \in IPs : \A io \in BOOLEAN :
          unblock_ip(ip, io) =>
             IF ip \in DOMAIN failed_logins
             THEN /\ ret' = Result(TRUE, None, NoAttack)
                  /\ failed_logins'[ip].ban_until = None
                  /\ failed_logins'[ip].timestamps = <<>>
                  /\ IsBannedResult(ip)' = Result(FALSE, None, NoAttack)
             ELSE /\ ret' = Result(FALSE, None, NoAttack)
                  /\ ip \notin DOMAIN failed_logins'
                  /\ UNCHANGED <<failed_logins, burst_tracker, honeypot_hits,
                                 payload_hits, ban_file>>]_vars

\* a ban lifted by unblock_ip before it expired
C6_Witness ==
    \E ip \in DOMAIN failed_logins :
        /\ ret = Result(TRUE, None, NoAttack)
        /\ failed_logins[ip].ban_until = None
        /\ failed_logins[ip].timestamps = <<>>
        /\ prev_until[ip] # None /\ now < prev_until[ip]

\* what C7 says of the cases in which is_ip_banned does not report a ban
C7_NotBannedCases(ip) ==
    /\ ret' = Result(FALSE, None, NoAttack)
    /\ IF ip \notin DOMAIN failed_logins
       THEN failed_logins' = failed_logins
       ELSE IF failed_logins[ip].ban_until = None
       THEN failed_logins' = failed_logins
       ELSE /\ failed_logins'[ip].ban_until = None
            /\ failed_logins'[ip].timestamps = <<>>
            /\ failed_logins'[ip].offense_count = failed_logins[ip].offense_count
C7_Active(ip) ==
    /\ ip \in DOMAIN failed_logins
    /\ failed_logins[ip].ban_until # None
    /\ now < failed_logins[ip].ban_until

\* C7 as claimed: is_ip_banned returns (true, ban_until - now) exactly when
\* ban_until is set and now < ban_until.
C7_ExactRemaining ==
    [][\A ip \in IPs :
          is_ip_banned(ip) =>
             IF C7_Active(ip)
             THEN /\ ret'.ok = TRUE
                  /\ ret'.secs * TicksPerSec = failed_logins[ip].ban_until - now
                  /\ failed_logins' = failed_logins
             ELSE C7_NotBannedCases(ip)]_vars

\* C7 as amended: is_ip_banned returns true with ban_until - now cut to whole
\* seconds exactly when ban_until is set and now < ban_until; otherwise it returns
\* (false, None), clearing an expired ban and its timestamps, keeping
\* offense_count and creating no record.
C7_WholeSecondsRemaining ==
    [][\A ip \in IPs :
          is_ip_banned(ip) =>
             IF C7_Active(ip)
             THEN /\ ret'.ok = TRUE
                  /\ ret'.secs * TicksPerSec <= failed_logins[ip].ban_until - now
                  /\ failed_logins[ip].ban_until - now < (ret'.secs + 1) * TicksPerSec
                  /\ failed_logins' = failed_logins
             ELSE C7_NotBannedCases(ip)]_vars

\* is_ip_banned has just reported a remaining time that is not a whole second
C7_Witness ==
    \E ip \in DOMAIN failed_logins :
        /\ ret.ok /\ ret.secs # None
        /\ failed_logins[ip].ban_until # None
        /\ ret.secs * TicksPerSec < failed_logins[ip].ban_until - now
        /\ failed_logins[ip].ban_until - now < (ret.secs + 1) * TicksPerSec

\* the requests of ip that check_ddos counts: those of the last 10 s and this one
C8_Counted(ip) ==
    LET rs == IF ip \in DOMAIN burst_tracker THEN burst_tracker[ip] ELSE <<>>
    IN  RunsLen(SelectSeq(rs, LAMBDA r : now - r[1] <= 10 * TicksPerSec)) + 1
C8_BansByTheRule(ip) ==
    IF ret'.ok
    THEN /\ failed_logins'[ip].offense_count = OffenseBefore(ip) + 1
         /\ failed_logins'[ip].ban_until =
                now + LadderSeconds(OffenseBefore(ip)) * TicksPerSec
    ELSE failed_logins' = failed_logins

\* C8 as claimed: check_ddos returns true and bans exactly when the requests per
\* second over the window exceed 100.
C8_ExceedsLimit ==
    [][\A ip \in IPs : \A io \in BOOLEAN :
          check_ddos(ip, io) =>
             /\ ret'.ok <=> (C8_Counted(ip) > 100 * 10)
             /\ C8_BansByTheRule(ip)]_vars

\* C8 as amended: check_ddos returns true and bans exactly when the requests per
\* second over the window are 100 or more.
C8_ReachesLimit ==
    [][\A ip \in IPs : \A io \in BOOLEAN :
          check_ddos(ip, io) =>
             /\ ret'.ok <=> (C8_Counted(ip) >= 100 * 10)
             /\ C8_BansByTheRule(ip)]_vars

\* check_ddos has just banned an IP at exactly 100 requests per second
C8_Witness ==
    \E ip \in DOMAIN burst_tracker :
        /\ ret = Result(TRUE, None, NoAttack)
        /\ RunsLen(burst_tracker[ip]) = 1000
        /\ ip \in DOMAIN failed_logins
        /\ failed_logins[ip].timestamps = <<>>
        /\ failed_logins[ip].ban_until = now + 3600 * TicksPerSec
        /\ nbans = 1

\* C9: inspect_payload returns the first class, in the order SQL injection, XSS,
\* path traversal, command injection, that matches path + " " + query + " " +
\* body, wherever the matches are, and None exactly when no class matches.
C9_PriorityOrder ==
    LET text  == Combined(request.path, request.query, request.body)
        order == <<"SQL_INJECTION", "XSS", "PATH_TRAVERSAL", "CMD_INJECTION">>
        hit   == <<SQLI_PATTERNS(text), XSS_PATTERNS(text),
                   PATH_TRAVERSAL(text), CMD_INJECTION(text)>>
        found == {i \in 1 .. 4 : hit[i]}
    IN  ret.attack = IF found = {} THEN NoAttack
                     ELSE order[CHOOSE i \in found : \A j \in found : i <= j]

\* a path with <script in front of -- was classified as SQL injection
C9_Witness ==
    /\ request.path = <<"<script", "--">>
    /\ ret.attack = "SQL_INJECTION"
    /\ Len(payload_hits) = 1

\* C10: record_honeypot_hit appends one HoneypotHit to the bounded buffer and bans
\* the IP by the escalation rule, banned already or not, so that is_ip_banned is
\* true right after it.
C10_HoneypotAlwaysBans ==
    [][\A ip \in IPs, path \in Paths, ua \in UserAgents, io \in BOOLEAN :
          record_honeypot_hit(ip, path, ua, io) =>
             LET n   == Len(honeypot_hits)
                 hit == [ip |-> ip, path |-> path, timestamp |-> now, user_agent |-> ua]
             IN  /\ Len(honeypot_hits') = Min(n + 1, 2000)
                 /\ honeypot_hits'[Len(honeypot_hits')] = hit
                 /\ SubSeq(honeypot_hits', 1, Len(honeypot_hits') - 1) =
                        IF n < 2000 THEN honeypot_hits ELSE Tail(honeypot_hits)
                 /\ failed_logins'[ip].offense_count = OffenseBefore(ip) + 1
                 /\ failed_logins'[ip].ban_until =
                        now + LadderSeconds(OffenseBefore(ip)) * TicksPerSec
                 /\ IsBannedResult(ip)'.ok]_vars

\* two honeypot hits of one IP, the second made while the first ban was active
C10_Witness ==
    \E ip \in DOMAIN failed_logins :
        /\ Len(honeypot_hits) = 2
        /\ honeypot_hits[1].ip = ip /\ honeypot_hits[2].ip = ip
        /\ honeypot_hits[2].timestamp < honeypot_hits[1].timestamp + 3600 * TicksPerSec
        /\ failed_logins[ip].offense_count = 2
        /\ bans_total[ip] = 2
        /\ IsBannedResult(ip).ok

\* a step that is a calculate_threat_score call
C11_Calculates(cpu, mem, conns) ==
    calculate_threat_score(cpu, mem, conns) /\ UNCHANGED banVars

\* the factor sub-scores of a returned factors dict, times 5 (the connection score
\* is conns / 5), and the weights that went into the score
C12_Points(f) ==
    [cpu     |-> 5 * Min(f.cpu, 100),
     memory  |-> 5 * Min(f.memory, 100),
     network |-> IF f.network_connections = None THEN 0
                 ELSE Min(f.network_connections, 500),
     banned  |-> 5 * Min(f.banned_ips * 10, 100),
     honey   |-> 5 * Min(f.honeypot_hits_1h * 5, 100),
     payload |-> 5 * Min(f.payload_attacks_1h * 10, 100)]
C12_Sum(f) ==
    LET p == C12_Points(f)
    IN  15 * p.cpu + 15 * p.memory + 20 * p.network + 20 * p.banned
        + 15 * p.honey + 15 * p.payload
C12_WeightsRead(f) == IF f.network_connections = None THEN 80 ELSE 100
C12_Rounded(f) ==
    LET q == C12_Sum(f) \div 500
        r == C12_Sum(f) % 500
    IN  Min(IF 2 * r > 500 \/ (2 * r = 500 /\ q % 2 = 1) THEN q + 1 ELSE q, 100)
C12_Truncated(f) == Min(C12_Sum(f) \div (5 * C12_WeightsRead(f)), 100)
C12_Level(sc) ==
    /\ sc.level = "critical" <=> sc.threat_score >= 80
    /\ sc.level = "high"     <=> sc.threat_score \in 60 .. 79
    /\ sc.level = "medium"   <=> sc.threat_score \in 40 .. 59
    /\ sc.level = "low"      <=> sc.threat_score < 40
\* the factors are read from the engine as it is when the score is calculated
C12_FactorsRead(f, cpu, mem, conns) ==
    /\ f.cpu = cpu /\ f.memory = mem /\ f.network_connections = conns
    /\ f.banned_ips =
          Cardinality({ip \in DOMAIN failed_logins :
                          /\ failed_logins[ip].ban_until # None
                          /\ failed_logins[ip].ban_until > now})
    /\ f.honeypot_hits_1h =
          Cardinality({i \in DOMAIN honeypot_hits :
                          honeypot_hits[i].timestamp > now - 3600 * TicksPerSec})
    /\ f.payload_attacks_1h =
          Cardinality({i \in DOMAIN payload_hits :
                          payload_hits[i].timestamp > now - 3600 * TicksPerSec})

\* C11: from activate_kill_switch() until the next deactivate_kill_switch() every
\* calculate_threat_score() returns score 100 and level "critical", whatever the
\* rest of the engine state is: the switch goes on with activate, stays on through
\* every other operation, and goes off with deactivate, after which the score is
\* again the one computed from the factors.
C11_KillSwitchOverrides ==
    [][ /\ (activate_kill_switch /\ UNCHANGED banVars) => kill_switch_active'
        /\ (deactivate_kill_switch /\ UNCHANGED banVars) => ~kill_switch_active'
        /\ (kill_switch_active /\ ~(deactivate_kill_switch /\ UNCHANGED banVars))
              => kill_switch_active'
        /\ \A cpu \in CpuReadings, mem \in MemReadings, conns \in ConnReadings :
              C11_Calculates(cpu, mem, conns) =>
                 IF kill_switch_active
                 THEN /\ score'.threat_score = 100
                      /\ score'.level = "critical"
                      /\ score'.kill_switch_active
                 ELSE /\ ~score'.kill_switch_active
                      /\ C12_FactorsRead(score'.factors, cpu, mem, conns)
                      /\ score'.threat_score = C12_Truncated(score'.factors)
      ]_vars

\* C11 witness: the switch is on and the score returned is 100 / critical although
\* the engine has seen no attack at all
C11_Witness ==
    /\ kill_switch_active
    /\ score.threat_score = 100 /\ score.level = "critical" /\ score.kill_switch_active
    /\ failed_logins = EmptyMap /\ honeypot_hits = <<>> /\ payload_hits = <<>>

\* C12 as stated: with the switch off the score is the weighted average of six
\* factors (weights 15, 15, 20, 20, 15, 15), rounded to an integer and clamped to
\* 100, with the level thresholds 80 / 60 / 40.
C12_RoundedAverage ==
    [][ \A cpu \in CpuReadings, mem \in MemReadings, conns \in ConnReadings :
           (C11_Calculates(cpu, mem, conns) /\ ~kill_switch_active) =>
              /\ C12_FactorsRead(score'.factors, cpu, mem, conns)
              /\ score'.threat_score = C12_Rounded(score'.factors)
              /\ C12_Level(score')
      ]_vars

\* C12 amended: with the switch off the score is the weighted average of the
\* factors that could be read (the connection factor, weight 20, is left out of
\* both sums when the connections cannot be listed), truncated to an integer and
\* clamped to 100; the banned-IP count x10, the honeypot hits of the last hour x5
\* and the payload attacks of the last hour x10 are each capped at 100; the level
\* is critical from 80, high from 60, medium from 40, low below.
C12_TruncatedAverage ==
    [][ \A cpu \in CpuReadings, mem \in MemReadings, conns \in ConnReadings :
           (C11_Calculates(cpu, mem, conns) /\ ~kill_switch_active) =>
              /\ C12_FactorsRead(score'.factors, cpu, mem, conns)
              /\ score'.threat_score = C12_Truncated(score'.factors)
              /\ C12_Level(score')
      ]_vars

\* C12 witness: a score whose banned-IP and honeypot factors are over their caps,
\* computed without the connection factor, the average's fraction of more than a
\* half dropped
C12_Witness ==
    /\ ~score.kill_switch_active /\ score.threat_score # None
    /\ score.factors.banned_ips * 10 > 100
    /\ score.factors.honeypot_hits_1h * 5 > 100
    /\ score.factors.network_connections = None
    /\ score.threat_score = C12_Truncated(score.factors)
    /\ 2 * (C12_Sum(score.factors) % (5 * C12_WeightsRead(score.factors)))
          > 5 * C12_WeightsRead(score.factors)

\* what a banning call does to the ban state of ip, whatever became of the write
C13_Banned(ip) ==
    /\ ip \in DOMAIN failed_logins'
    /\ failed_logins'[ip].ban_until = now + LadderSeconds(OffenseBefore(ip)) * TicksPerSec
    /\ failed_logins'[ip].offense_count = OffenseBefore(ip) + 1
    /\ IsBannedResult(ip)'.ok
\* the ban state of ip is what it was
C13_BanStateKept(ip) ==
    IF ip \in DOMAIN failed_logins
    THEN /\ ip \in DOMAIN failed_logins'
         /\ failed_logins'[ip].ban_until = failed_logins[ip].ban_until
         /\ failed_logins'[ip].offense_count = failed_logins[ip].offense_count
    ELSE ip \in DOMAIN failed_logins' =>
            /\ failed_logins'[ip].ban_until = None
            /\ failed_logins'[ip].offense_count = 0

\* C13: a failing write or read of the ban snapshot never fails a ban operation:
\* record_failed_login, check_ddos, inspect_payload, record_honeypot_hit and
\* unblock_ip return what they return when the write succeeds, with the ban state
\* in memory updated by the same rule, and constructing the engine over a snapshot
\* that cannot be read gives an engine with no bans.
C13_StorageFailuresIgnored ==
    [][ /\ \A ip \in IPs : \A io \in BOOLEAN :
           /\ record_failed_login(ip, io) =>
                 /\ ret' \in {Result(TRUE, None, NoAttack), Result(FALSE, None, NoAttack)}
                 /\ ret'.ok <=>
                       Cardinality({i \in DOMAIN AttemptsBefore(ip) :
                                       now - AttemptsBefore(ip)[i] <= 300 * TicksPerSec})
                       + 1 >= 5
                 /\ IF ret'.ok THEN C13_Banned(ip) ELSE C13_BanStateKept(ip)
           /\ check_ddos(ip, io) =>
                 /\ ret' \in {Result(TRUE, None, NoAttack), Result(FALSE, None, NoAttack)}
                 /\ ret'.ok <=> (C8_Counted(ip) >= 100 * 10)
                 /\ IF ret'.ok THEN C13_Banned(ip) ELSE C13_BanStateKept(ip)
           /\ (\E path \in Paths : inspect_payload(ip, path, <<"--">>, <<>>, io)) =>
                 /\ ret' = Result(TRUE, None, "SQL_INJECTION")
                 /\ C13_Banned(ip)
           /\ (\E path \in Paths, ua \in UserAgents :
                  record_honeypot_hit(ip, path, ua, io)) =>
                 /\ ret' = NoResult
                 /\ C13_Banned(ip)
           /\ unblock_ip(ip, io) =>
                 /\ ret' = Result(ip \in DOMAIN failed_logins, None, NoAttack)
                 /\ ~IsBannedResult(ip)'.ok
                 /\ ip \in DOMAIN failed_logins =>
                       /\ failed_logins'[ip].ban_until = None
                       /\ failed_logins'[ip].offense_count = failed_logins[ip].offense_count
        /\ restart(FALSE) =>
              /\ ret' = NoResult
              /\ \A ip \in Clients : ~IsBannedResult(ip)'.ok /\ ip \notin DOMAIN failed_logins'
      ]_vars

\* C13 witness: a call has just banned an IP and returned true although its write
\* failed: the ban is in memory and not in the snapshot
C13_Witness ==
    \E ip \in DOMAIN failed_logins :
        /\ ret = Result(TRUE, None, NoAttack)
        /\ IsBannedResult(ip).ok
        /\ failed_logins[ip].ban_until = now + 3600 * TicksPerSec
        /\ ip \notin DOMAIN ban_file

\* C14: whenever no operation is under way, loading the snapshot into a fresh
\* engine gives, for every IP whose ban has not expired, a record with the same
\* ban_until and the same offense_count as in the writing engine, and no ban for
\* an IP whose ban has expired or was lifted.
C14_RoundTrip ==
    LET fresh == Loaded(ban_file, now)
    IN  \A ip \in Clients :
           IF C7_Active(ip)
           THEN /\ ip \in DOMAIN fresh
                /\ fresh[ip].ban_until = failed_logins[ip].ban_until
                /\ fresh[ip].offense_count = failed_logins[ip].offense_count
           ELSE ip \notin DOMAIN fresh

\* what the rate limiter's properties read off a check: the base limit and the
\* window of a category, the requests of the client still inside the window, the
\* offenses so far, and whether the circuit breaker lets the check through
C15_Base(category) ==
    CASE category = "login" -> 5 [] category = "register" -> 3
      [] category = "forgot_password" -> 2 [] category = "api" -> 120
      [] category = "ws" -> 5 [] category = "public" -> 30 [] OTHER -> 60
C15_Window == 60 * TicksPerSec
C15_Held(ip, category) ==
    IF <<ip, category>> \in DOMAIN requests THEN requests[<<ip, category>>] ELSE <<>>
C15_Live(ip, category) ==
    Cardinality({i \in DOMAIN C15_Held(ip, category) :
                    C15_Held(ip, category)[i] > now - C15_Window})
C15_OffensesBefore(ip) == IF ip \in DOMAIN blocked_count THEN blocked_count[ip] ELSE 0
C17_Evaluated(category) == ~circuit_open \/ category \in {"health", "public"}
\* the sliding-window rule with the given limit
C15_SlidingWindow(ip, category, limit) ==
    /\ info'.limit = limit
    /\ info'.allowed <=> (C15_Live(ip, category) < limit)
    /\ info'.reason = ""
    /\ IF info'.allowed
       THEN /\ Len(requests'[<<ip, category>>]) = C15_Live(ip, category) + 1
            /\ requests'[<<ip, category>>][C15_Live(ip, category) + 1] = now
            /\ info'.remaining = limit - C15_Live(ip, category) - 1
       ELSE /\ Len(requests'[<<ip, category>>]) = C15_Live(ip, category)
            /\ info'.retry_after > 0
            /\ info'.retry_after <= 60 + 1
            /\ info'.remaining = 0
C16_Tightened(limit) == LET f == (limit * 4) \div 10 IN IF f < 1 THEN 1 ELSE f
C18_Reduced(limit, offenses) ==
    LET cut == IF offenses >= 10 THEN limit \div 4
               ELSE IF offenses >= 5 THEN limit \div 2 ELSE limit
    IN  IF cut < 1 THEN 1 ELSE cut

\* C15: with attack mode off, the circuit breaker closed and fewer than 5 offenses,
\* a check of category C (limit L, window W) is admitted exactly when fewer than L
\* admitted requests of the IP are younger than W: the first L requests within W
\* are admitted, the next one within W is rejected with retry_after > 0, and a
\* request is admitted again once W has passed since the first.
C15_SlidingWindowLimit ==
    [][\A ip \in IPs, category \in Categories :
          (/\ check(ip, category)
           /\ ~attack_mode /\ ~circuit_open /\ C15_OffensesBefore(ip) < 5) =>
             C15_SlidingWindow(ip, category, C15_Base(category))]_vars

\* C15 witness: the 6th login request within the window has just been rejected,
\* half a second after the first five, with a retry hint of a full window
C15_Witness ==
    \E ip \in IPs :
        /\ info = Info(FALSE, "login", 5, 0, 60, 60, "")
        /\ <<ip, "login">> \in DOMAIN requests
        /\ Len(requests[<<ip, "login">>]) = 5
        /\ requests[<<ip, "login">>][1] < now
        /\ ~attack_mode /\ ~circuit_open
        /\ blocked_count = [x \in {ip} |-> 1]

\* C16: while attack mode is on, the limit a check applies to category C with base
\* limit L is max(1, floor(0.4 L)), cut further only by the repeat-offender
\* reduction: it is never 0 and never more than L.
C16_AttackModeLimit ==
    [][\A ip \in IPs, category \in Categories :
          (check(ip, category) /\ attack_mode /\ C17_Evaluated(category)) =>
             /\ C15_SlidingWindow(ip, category,
                                  C18_Reduced(C16_Tightened(C15_Base(category)),
                                              C15_OffensesBefore(ip)))
             /\ C15_OffensesBefore(ip) < 5 =>
                   info'.limit = C16_Tightened(C15_Base(category))
             /\ info'.limit >= 1 /\ info'.limit <= C15_Base(category)]_vars

\* C16 witness: in attack mode the second forgot_password request in a window was
\* rejected: floor(0.4 * 2) is 0 and the limit applied was 1
C16_Witness ==
    /\ attack_mode
    /\ info.category = "forgot_password" /\ ~info.allowed /\ info.limit = 1
    /\ info.reason = ""
    /\ \E ip \in IPs : blocked_count = [x \in {ip} |-> 1]

C18_OffensePenalty ==
    [][\A ip \in IPs, category \in Categories :
          (check(ip, category) /\ C17_Evaluated(category)) =>
             /\ info'.limit =
                   C18_Reduced(IF attack_mode THEN C16_Tightened(C15_Base(category))
                               ELSE C15_Base(category),
                               C15_OffensesBefore(ip))
             /\ info'.limit >= 1
             /\ info'.allowed <=> (C15_Live(ip, category) < info'.limit)
             /\ IF info'.allowed
                THEN /\ blocked_count' = blocked_count
                     /\ total_blocked' = total_blocked
                ELSE /\ blocked_count'[ip] = C15_OffensesBefore(ip) + 1
                     /\ total_blocked' = total_blocked + 1]_vars

\* C18 witness: the 5th rejection of a client has halved its login limit: the
\* third request in a window is rejected
C18_Witness ==
    \E ip \in IPs :
        /\ ip \in DOMAIN blocked_count /\ blocked_count[ip] = 6
        /\ info.category = "login" /\ ~info.allowed /\ info.limit = 2
        /\ ~attack_mode
        /\ <<ip, "login">> \in DOMAIN requests
        /\ Len(requests[<<ip, "login">>]) = 2

\* whether a check of the middleware, run in this step for ip, failed: told by
\* what the step did to the state
C19_Fails(stage, ip) ==
    CASE stage = "is_ip_banned"    -> C7_Active(ip)
      [] stage = "check_ddos"      -> C8_Counted(ip) >= 100 * 10
      [] stage = "check"           -> ~info'.allowed
      [] stage = "inspect_payload" -> payload_hits' # payload_hits
      [] OTHER                     -> FALSE
C19_Status(stage) ==
    CASE stage = "is_ip_banned"    -> 403
      [] stage = "check_ddos"      -> 429
      [] stage = "check"           -> 429
      [] stage = "inspect_payload" -> 400
      [] OTHER                     -> 200
\* the step ran the checks in the given order up to the first that failed, and
\* passed the request on exactly when none failed
C19_InOrder(ip, order) ==
    LET r == response'.ran
        n == Len(r)
    IN  /\ n >= 1 /\ n <= Len(order)
        /\ \A i \in 1 .. n : r[i] = order[i]
        /\ (\E i \in 1 .. n : r[i] = "check_ddos") <=> burst_tracker' # burst_tracker
        /\ (\E i \in 1 .. n : r[i] = "check")
              <=> (requests' # requests \/ total_blocked' # total_blocked)
        /\ \A i \in 1 .. (n - 1) : ~C19_Fails(r[i], ip)
        /\ r[n] = "call_next" \/ C19_Fails(r[n], ip)
        /\ response'.status_code = C19_Status(r[n])
        /\ r[n] # "inspect_payload" /\ r[n] # "check_ddos" => NoBan

\* C19 as stated: a request from an IP that is not whitelisted is checked by the
\* rate limiter first, then by the threat engine's ban check, burst check and
\* payload inspection; the first failing check rejects it and the later ones do
\* not run; it reaches the handler only if all pass.
C19_LimiterFirst ==
    [][\A ip \in MiddlewareIPs \ WHITELISTED_IPS, path \in MiddlewarePaths,
          query \in Queries :
          security_middleware(ip, path, query) =>
             C19_InOrder(ip, <<"check", "is_ip_banned", "check_ddos",
                               "inspect_payload", "call_next">>)]_vars

\* C19 amended: a request from an IP that is not whitelisted is checked by the
\* threat engine's ban check, then its burst check, then by the rate limiter, then
\* by the payload inspection; the first failing check rejects it (403, 429, 429,
\* 400) and the later ones do not run; it reaches the handler only if all pass.
C19_EngineFirst ==
    [][\A ip \in MiddlewareIPs \ WHITELISTED_IPS, path \in MiddlewarePaths,
          query \in Queries :
          security_middleware(ip, path, query) =>
             C19_InOrder(ip, <<"is_ip_banned", "check_ddos", "check",
                               "inspect_payload", "call_next">>)]_vars

\* C19 witness: a request rejected by the rate limiter after the ban check and
\* the burst check ran (the burst window counted it), a malicious query unread
C19_Witness ==
    /\ response = Response(<<"is_ip_banned", "check_ddos", "check">>, 429)
    /\ total_blocked = 1
    /\ burst_tracker # EmptyMap
    /\ payload_hits = <<>> /\ failed_logins = EmptyMap

\* C20: analyze returns status learning with an empty anomaly list, and changes no
\* streak counter and no anomaly history, on every call after which a sample
\* window holds fewer than 20 values (the three windows always hold the same
\* number); from the call that brings them to 20 values on it returns status
\* monitoring.
C20_LearningPhase ==
    [][\A cpu \in Readings, memory \in Readings, disk \in Readings :
          analyze(cpu, memory, disk) =>
             /\ Len(cpu_history') = Len(memory_history')
             /\ Len(cpu_history') = Len(disk_history')
             /\ Len(cpu_history') = IF Len(cpu_history) < 120
                                    THEN Len(cpu_history) + 1 ELSE 120
             /\ IF Len(cpu_history') < 20
                THEN /\ analysis'.status = "learning"
                     /\ analysis'.anomalies = <<>>
                     /\ anomaly_streaks' = anomaly_streaks
                     /\ anomalies' = anomalies
                     /\ total_anomalies_detected' = total_anomalies_detected
                ELSE analysis'.status = "monitoring"]_vars

\* C20 witness: the 20th call has just returned monitoring, with a streak begun,
\* the 19 calls before it having returned learning
C20_Witness ==
    /\ Len(cpu_history) = 20 /\ total_checks = 20
    /\ analysis.status = "monitoring" /\ analysis.samples = 20
    /\ anomaly_streaks.cpu = 1
    /\ anomalies = <<>>

\* the metrics, the window of each and the name each is reported under
Metrics == {"cpu", "memory", "disk"}
C21_Window(metric) ==
    IF metric = "cpu" THEN cpu_history
    ELSE IF metric = "memory" THEN memory_history ELSE disk_history
C21_Label(metric) ==
    IF metric = "cpu" THEN "CPU" ELSE IF metric = "memory" THEN "Memory" ELSE "Disk"

\* the call that appended the k-th value of the window was warmed up and its
\* z-score, taken over the window as it was then, exceeded the metric's threshold
C21_Breached(metric, window, k) ==
    /\ k >= MIN_SAMPLES
    /\ k <= Len(window)
    /\ ZScoreAbove(SubSeq(window, 1, k), window[k], Threshold(metric))

\* the events for a metric in a list of anomalies
C21_Events(metric, found) == {i \in DOMAIN found : found[i].metric = C21_Label(metric)}

\* C21: for each metric independently, a warmed-up analyze call whose z-score
\* exceeds the metric's threshold adds 1 to the metric's streak and any other
\* warmed-up call sets it to 0; a call emits an anomaly for the metric only if it
\* and the two warmed-up calls before it all breached (and at most one per call).
C21_StreakDebounce ==
    [][\A cpu \in Readings, memory \in Readings, disk \in Readings :
          (analyze(cpu, memory, disk) /\ Len(cpu_history') >= MIN_SAMPLES) =>
             \A metric \in Metrics :
                LET window == C21_Window(metric)'
                    n      == Len(window)
                    events == C21_Events(metric, analysis'.anomalies)
                IN  /\ anomaly_streaks'[metric] =
                          IF C21_Breached(metric, window, n)
                          THEN anomaly_streaks[metric] + 1 ELSE 0
                    /\ Cardinality(events) <= 1
                    /\ events # {} =>
                          \A k \in (n - (STREAK_THRESHOLD - 1)) .. n :
                             C21_Breached(metric, window, k)]_vars

\* C21 witness: a third consecutive breach of the disk threshold has emitted a disk
\* anomaly, while the CPU streak, broken by a steady reading, is back at 0
C21_Witness ==
    /\ analysis.status = "monitoring"
    /\ anomaly_streaks.disk = STREAK_THRESHOLD
    /\ C21_Events("disk", analysis.anomalies) # {}
    /\ anomaly_streaks.cpu = 0
    /\ \E k \in 1 .. Len(cpu_history) : cpu_history[k] # 50

\* the window is n steady readings followed by k readings of the same outlier
C22_OutlierRun(window, n, k) ==
    /\ Len(window) = n + k
    /\ \A i \in 1 .. n : window[i] = 50
    /\ \A i \in (n + 1) .. (n + k) : window[i] = 60

\* C22: after min_samples steady values, feeding the same outlier streak_threshold
\* consecutive times has produced exactly one anomaly event for each of CPU,
\* memory and disk.
C22_OneEventPerRun ==
    \A metric \in Metrics :
       C22_OutlierRun(C21_Window(metric), MIN_SAMPLES, STREAK_THRESHOLD) =>
          Cardinality(C21_Events(metric, anomalies)) = 1

\* the escalated heal calls made since run() called heal
C23_Escalated == {i \in DOMAIN heal_trace : heal_trace[i].op = "heal" /\ heal_trace[i].flag}

\* C23: when a failed verification has made consecutive_fails reach 3, exactly one
\* heal call with escalate=True is made, whatever the verification of that call
\* finds, and consecutive_fails is 0 when the heal call that triggered it returns.
C23_OneEscalatedHeal ==
    /\ Cardinality(C23_Escalated) <= 1
    /\ (heal_stack = <<>> /\ C23_Escalated # {}) => consecutive_fails = 0

\* C24: a heal call nests at most one escalated heal call inside it and ends by
\* returning, whatever the health probe answers.
C24_BoundedRecursion ==
    /\ Cardinality({i \in DOMAIN heal_stack : heal_stack[i].escalate}) <= 1
    /\ \A i \in DOMAIN heal_trace : heal_trace[i].op # "RecursionError"

\* the heal calls in heal_trace and what each did itself: the entries from its
\* own to the next call's
C25_Calls == {i \in DOMAIN heal_trace : heal_trace[i].op = "heal"}
C25_Last(i) ==
    LET later == {j \in DOMAIN heal_trace :
                     j > i /\ heal_trace[j].op \in {"heal", "RecursionError"}}
    IN  IF later = {} THEN Len(heal_trace)
        ELSE (CHOOSE j \in later : \A k \in later : j <= k) - 1
C25_Did(i) == SubSeq(heal_trace, i + 1, C25_Last(i))

\* C25: a heal call without escalate restarts a service only after its own
\* is-active query found that service not running; a heal call with escalate
\* kills the listener of the backend port, then restarts nginx, then the backend,
\* whatever is running; on both paths the API health probe of the call comes after
\* every restart of the call.
C25_Remediation ==
    \A i \in C25_Calls :
       LET did      == C25_Did(i)
           restarts == {k \in DOMAIN did : did[k].op = "restart"}
           probes   == {k \in DOMAIN did : did[k].op = "probe"}
       IN  /\ \A r \in restarts, q \in probes : r < q
           /\ IF heal_trace[i].flag
              THEN /\ Len(did) >= 3
                   /\ did[1].op = "kill" /\ did[1].target = BACKEND_PORT
                   /\ did[2].op = "restart" /\ did[2].target = NGINX_SERVICE
                   /\ did[3].op = "restart" /\ did[3].target = BACKEND_SERVICE
                   /\ restarts = {2, 3}
              ELSE \A r \in restarts :
                      \E q \in 1 .. (r - 1) :
                         /\ did[q].op = "is-active"
                         /\ did[q].target = did[r].target
                         /\ ~did[q].flag

\* C25 witness: a heal call found the backend running and nginx not, restarted
\* nginx alone and failed its verification for the third time in a row; the
\* escalated call it made killed the listener, restarted both services and passed
\* its verification; both calls have returned
C25_Witness ==
    /\ heal_stack = <<>>
    /\ Len(heal_trace) = 10
    /\ heal_trace[2] = Op("is-active", BACKEND_SERVICE, TRUE)
    /\ heal_trace[3] = Op("is-active", NGINX_SERVICE, FALSE)
    /\ heal_trace[4] = Op("restart", NGINX_SERVICE, TRUE)
    /\ heal_trace[5] = Op("probe", "", FALSE)
    /\ heal_trace[6] = Op("heal", "", TRUE)
    /\ heal_trace[7] = Op("kill", BACKEND_PORT, TRUE)
    /\ heal_trace[10] = Op("probe", "", TRUE)

\* a ban record the sweep is to collect: no failed login within the rolling window
\* and no ban, or an expired one
C26_Collectable(rec, t) ==
    /\ \A i \in DOMAIN rec.timestamps : t - rec.timestamps[i] > Sec(FAILED_LOGIN_WINDOW)
    /\ rec.ban_until = None \/ rec.ban_until <= t

\* C26: the periodic sweep removes from _failed_logins every record whose
\* failed-login window holds no timestamp within the rolling window and whose ban
\* is absent or expired (no event for the IP arrives between: the sweep is one step).
C26_SweepCollects ==
    [][cleanup_sweep =>
          \A ip \in DOMAIN failed_logins :
             C26_Collectable(failed_logins[ip], now) => ip \notin DOMAIN failed_logins']_vars

\* C27: the periodic sweep removes from _burst_tracker every BurstRecord whose
\* timestamps are all older than the burst window.
C27_SweepDiscards ==
    [][cleanup_sweep =>
          \A ip \in DOMAIN burst_tracker :
             (\A i \in DOMAIN burst_tracker[ip] :
                 now - burst_tracker[ip][i][1] > Sec(DDOS_WINDOW))
                => ip \notin DOMAIN burst_tracker']_vars

C29_LoopsSurvive == \A loop \in Loops : loop_pc[loop] # "dead"

\* C30: every step that changes a per-IP map of the threat engine (_failed_logins:
\* ban records and failed-login timestamps; _burst_tracker) is taken by a thread
\* that holds the engine's lock, and every step that changes a per-IP map of the
\* rate limiter (_requests, _blocked_count) by a thread that holds the limiter's
\* lock, request thread and background thread alike.
C30_MutationsUnderLock ==
    [][/\ (failed_logins' # failed_logins \/ burst_tracker' # burst_tracker)
             => (actor' \in Threads /\ engine_lock = actor' /\ engine_lock' = actor')
       /\ (requests' # requests \/ blocked_count' # blocked_count)
             => (actor' \in Threads /\ limiter_lock = actor' /\ limiter_lock' = actor')]_vars

\* C30 witness: the background thread has swept the burst tracker inside the
\* engine's lock, which it still holds, while the request thread, inside the
\* limiter's lock, has recorded a request
C30_Witness ==
    /\ engine_lock = "background" /\ thread_pc["background"] = "leave engine"
    /\ cleanup_pc = "save"
    /\ limiter_lock = "request" /\ thread_pc["request"] = "leave limiter"
    /\ requests # EmptyMap

\* C31: get_anomaly_history may be called at any point, also between two steps
\* of an analyze call in progress, and every list it returns holds at most
\* MAX_ANOMALIES events, the most recent first.
C31_SafeHistory ==
    [][history' # history =>
          /\ Len(history') <= MAX_ANOMALIES
          /\ history' = Reversed(anomalies)]_vars

\* C32: every health report written carries, as api_healthy, the outcome of the
\* most recent API health probe made before the write (the poll of step 1 or a
\* later verification probe of a heal call of the same iteration), and, as its
\* counters, the supervisor's counters at the time of the write.
C32_ReportReflectsLatestPoll ==
    [][report' # report =>
          /\ report'.api_healthy = last_probe
          /\ report'.failures = failure_count
          /\ report'.heals = healed_count
          /\ report'.consecutive_fails = consecutive_fails]_vars

\* the number of the times in list that lie in the window of length w ending at t
C33_Within(list, t, w) == Cardinality({j \in DOMAIN list : t - w < list[j] /\ list[j] <= t})

\* C33: with check calls of several threads, the toggles and the background
\* sweep interleaved in any way, no window shorter than the category's
\* window_seconds holds more admitted requests of one (ip, category) than the
\* category's base limit, and every timestamp in a window is an admitted request's.
C33_SlidingWindowUnderConcurrency ==
    /\ \A key \in DOMAIN admitted : \A i \in DOMAIN admitted[key] :
          C33_Within(admitted[key], admitted[key][i],
                     Sec(RATE_LIMITS[key[2]].window_seconds))
             <= RATE_LIMITS[key[2]].max_requests
    /\ \A key \in DOMAIN requests :
          /\ key \in DOMAIN admitted
          /\ \A i \in DOMAIN requests[key] :
                \E j \in DOMAIN admitted[key] : admitted[key][j] = requests[key][i]

\* C34: whenever the cleanup loop's _save_bans is not between building its dict
\* and writing it (every call of the request threads being one step), the
\* snapshot file holds every ban that is active in memory, with its expiry and
\* its offense count.
C34_NoLostSnapshotUpdate ==
    cleanup_pc = "sleep" =>
        \A ip \in DOMAIN failed_logins :
            (failed_logins[ip].ban_until # None /\ failed_logins[ip].ban_until > now) =>
                /\ ip \in DOMAIN ban_file
                /\ ban_file[ip].ban_until = failed_logins[ip].ban_until
                /\ ban_file[ip].offense_count = failed_logins[ip].offense_count

\* C35: a call of record_failed_login made for an IP whose ban is active (a login
\* request that was already in flight when the ban took effect) does not ban the
\* IP again: it leaves offense_count and ban_until as they were.
C35_OneRunOneOffense ==
    [][\A ip \in IPs :
          (/\ record_failed_login(ip, TRUE)
           /\ ip \in DOMAIN failed_logins
           /\ failed_logins[ip].ban_until # None
           /\ failed_logins[ip].ban_until > now) =>
             /\ failed_logins'[ip].offense_count = failed_logins[ip].offense_count
             /\ failed_logins'[ip].ban_until = failed_logins[ip].ban_until]_vars

\* C36: while the kill switch stays active, attack mode, which its trigger turned
\* on, stays on: no step other than the deactivation of the kill switch, the
\* background loop's auto-tuning included, turns attack mode off.
C36_AttackModeHeld ==
    [][(kill_switch_active /\ kill_switch_active' /\ attack_mode) => attack_mode']_vars

\* C37: a failed login that bans is enforced on the client that made it: after
\* the login handler's call has banned, the middleware's ban check rejects a
\* request made over the same connection, direct or through the trusted proxy.
C37_BanEnforcedOnClient ==
    [][\A conn \in Connections :
          (login(conn) /\ ret'.ok) => BanCheckRejects(get_client_ip(conn))']_vars

\* C38: whenever no heal call is in progress, the consecutive-failure counter is
\* in 0..2, strictly below the escalation threshold.
C38_CounterBelowThreshold ==
    heal_stack = <<>> => consecutive_fails \in 0 .. (ESCALATE_AFTER - 1)

\* C39: the sweep of the background loop does not change what check decides: for
\* every client, category and later instant, check returns the same decision on
\* the request map the sweep leaves as on the map it found.
C39_SweepTransparent ==
    [][(\E cpu \in CpuSamples : background_loop(cpu)) =>
          \A ip \in IPs, category \in Categories, t \in LimiterInstants :
             t >= now =>
                CheckInfo(requests', ip, category, t) = CheckInfo(requests, ip, category, t)]_vars

\* C39 witness: the sweep has deleted every key of the map, after a check that
\* admitted a request into it.
C39_Witness ==
    /\ requests = EmptyMap
    /\ info # NoInfo /\ info.allowed
    /\ now >= Sec(STALE_AFTER)

\* the step is one of the seven operations, invoked for that IP
C40_InvokedFor(ip) ==
    \/ record_failed_login(ip, TRUE)
    \/ record_successful_login(ip)
    \/ is_ip_banned(ip)
    \/ unblock_ip(ip, TRUE)
    \/ check_ddos(ip, TRUE)
    \/ \E path \in Paths, query \in Queries : inspect_payload(ip, path, query, <<>>, TRUE)
    \/ \E path \in Paths, ua \in UserAgents : record_honeypot_hit(ip, path, ua, TRUE)

\* the step leaves the two records the engine keeps for that IP as they were,
\* absent ones absent
C40_Untouched(ip) ==
    /\ (ip \in DOMAIN failed_logins') = (ip \in DOMAIN failed_logins)
    /\ ip \in DOMAIN failed_logins => failed_logins'[ip] = failed_logins[ip]
    /\ (ip \in DOMAIN burst_tracker') = (ip \in DOMAIN burst_tracker)
    /\ ip \in DOMAIN burst_tracker => burst_tracker'[ip] = burst_tracker[ip]

\* C40: an operation invoked for one IP leaves ban_until, offense_count, the
\* failed-login window and the burst window of every other IP unchanged.
C40_CrossIpIsolation ==
    [][\A a \in IsolationIPs :
          C40_InvokedFor(a) => \A b \in IsolationIPs \ {a} : C40_Untouched(b)]_vars

\* C40 witness: one IP was banned in this behaviour for the second time while the
\* other holds a ban that has run out, failed logins and a burst window of its own.
C40_Witness ==
    \E a \in IsolationIPs, b \in IsolationIPs :
       /\ a # b
       /\ nbans >= 1
       /\ a \in DOMAIN failed_logins /\ failed_logins[a].offense_count = 2
       /\ b \in DOMAIN failed_logins /\ failed_logins[b] = FirstBan
       /\ ~(now < failed_logins[b].ban_until)
       /\ b \in DOMAIN burst_tracker /\ burst_tracker[b] = BurstPrefill

====
